---- MODULE Spec2Model ----
(***************************************************************************)
(* A model of DBManager (src/app/database.py): the row operations          *)
(* add_row, modify_row, remove_row and safe_remove on one target table     *)
(* with inbound foreign keys, and the pack_tables archive workflow.        *)
(*                                                                         *)
(* SpecCrud runs the row operations, one call at a time, step by step.     *)
(* SpecPack runs pack_tables, one call at a time, step by step.            *)
(* SpecSql runs run_sql and its callers; SpecRestore restore_from_backup;   *)
(* SpecExport the bulk exports; SpecNames two requests writing files;      *)
(* SpecWipe wipe_database; SpecStage save_query_to_xlsx.                   *)
(***************************************************************************)
EXTENDS Integers, Sequences, FiniteSets, TLC

\* ---------------------------------------------------------------- bounds

\* Primary-key values a row of the target table may carry: 1..MaxKey.
MaxKey == 2
\* Referencing tables 1..MaxEdges may hold a foreign key into the target.
MaxEdges == 2
\* Longest list of table names handed to pack_tables.
MaxTables == 3
\* Longest argument list handed to run_sql.
MaxParams == 11
\* Argument lists of up to MaxShort elements are taken with every choice of
\* their values.
MaxShort == 2
\* The clock of the server runs through the half seconds 0..MaxClock.
MaxClock == 3

Keys == 1..MaxKey

\* The table the row operations are called on; tables 1..MaxEdges reference it.
Target == 0

VARIABLES
    \* --- the PostgreSQL database of the row operations
    db,         \* committed rows: db[Target] is the set of keys of the target
                \* table, db[t] the set of target keys referenced by a row of t
    nEdges,     \* tables 1..nEdges hold a foreign key into the target table
    hasPk,      \* whether the referenced column "id" is a declared PRIMARY KEY
    \* --- one call of a row operation
    pc,         \* position of the running call ("idle" between calls)
    op,         \* the call: its name and arguments
    conn,       \* the connection the operation itself opened
    tx,         \* the rows as the open transaction of conn sees them
    log,        \* every statement sent to the server by this call, in order
    opened,     \* number of connections this call asked psycopg2 to open
    commits,    \* number of commits on conn in this call
    related,    \* what get_related_tables returned
    idx,        \* loop index over related
    relInfo,    \* relation_info of safe_remove
    kept,       \* filtered_data of add_row, clean_data of modify_row
    pkFound,    \* what get_table_pk returned to add_row
    result,     \* the value the call returned
    db0,        \* the committed rows when the call started
    fault,      \* the faults the environment injected into this call
    response,   \* what the HTTP handler of the call answered (ok = "": nothing yet)
    \* --- pack_tables
    ppc,        \* position of the running pack_tables call
    existing,   \* tables of the public schema
    existing0,  \* the tables of the public schema when the call started
    rowsOf,     \* number of rows of every table
    request,    \* table_names handed to pack_tables
    valid,      \* valid_tables
    pidx,       \* loop index over valid
    rowCount,   \* row_count of the table the loop is at
    steps,      \* per-table steps performed by this call, in order
    files,      \* files written to the archive directory by this call
    archiveDir, \* whether the archive directory of this call was created
    results,    \* results, one entry per table processed
    allGood,    \* all_good
    manifest,   \* the manifest written by this call (written = FALSE: none)
    presult,    \* the value pack_tables returned
    pfault,     \* the faults the environment injected into this call
    \* --- run_sql and its callers
    spc,        \* position of the running call
    scall,      \* the call: who calls, the statement, the argument list
    sargs,      \* params as handed on so far
    sconn,      \* the connection of run_sql and its transaction
    sqlParams,  \* sql_params
    sresult,    \* what run_sql returned
    sreply,     \* what the caller of run_sql made of it
    sfault,     \* the faults the environment injected into this call
    pkDecl,     \* the columns of the PRIMARY KEY of table "orders", in order
    \* --- restore_from_backup
    rpc,        \* position of the running call
    schema,     \* the tables of the public schema
    schema0,    \* the tables of the public schema when the call started
    backup,     \* the backup file: whether it exists, the tables it holds
    rpending,   \* tables the drop phase has still to drop
    rdropped,   \* tables dropped in the open transaction of the drop phase
    rconn,      \* the connection of the drop phase
    rlog,       \* the DROPs, the commit and the pg_restore run, in order
    rexit,      \* result.returncode
    rstdout,    \* result.stdout, in lines
    rstderr,    \* result.stderr, in lines
    rresult,    \* the value restore_from_backup returned
    rfault,     \* the faults the environment injected into this call
    \* --- save_tables_to_xlsx and save_tables_to_json
    xpc,        \* position of the running call
    xcall,      \* the call: the format and table_names
    xvalid,     \* valid_tables
    xdir,       \* whether save_dir was created
    xsheets,    \* the tables whose rows went into the file
    xfile,      \* whether the file of this call is on disk
    xresult,    \* the value the call returned
    xfault,     \* the faults the environment injected into this call
    \* --- the files of two requests in flight
    now,        \* datetime.now(), in half seconds
    fop,        \* per request: the operation, its position, the directory and
                \* the file path it chose
    \* --- wipe_database
    wpc,        \* position of the running call
    wschema,    \* the tables of the public schema, as committed
    wschema0,   \* the tables of the public schema when the call started
    wseen,      \* the tables as the open transaction of the call sees them
    wtables,    \* table_names
    widx,       \* loop index over table_names
    removed,    \* removed
    wconn,      \* the connection of the call and its transaction
    wlog,       \* the DROPs, the commit and the rollback of the call, in order
    wresult,    \* the value wipe_database returned
    wreply,     \* what the /api/wipe_all handler answered
    wfault,     \* the faults the environment injected into this call
    \* --- save_query_to_xlsx
    qpc,        \* position of the running call
    qcall,      \* the call: who made it, query_name, the rows of result_data
    qidx,       \* loop index over result_data
    qconn,      \* the connection of the call and its transaction
    qtable,     \* the staging table as committed: whether it exists, its rows
    qseen,      \* the staging table as the open transaction sees it
    qdir,       \* whether save_dir was created
    qfile,      \* whether the .xlsx file is on disk
    qlog,       \* the statements, commits, rollback and close, in order
    qresult,    \* the value save_query_to_xlsx returned
    qfault      \* the faults the environment injected into this call

crudVars == <<db, nEdges, hasPk, pc, op, conn, tx, log, opened, commits,
              related, idx, relInfo, kept, pkFound, result, db0, fault, response>>
packVars == <<ppc, existing, existing0, rowsOf, request, valid, pidx, rowCount,
              steps, files, archiveDir, results, allGood, manifest, presult,
              pfault>>
sqlVars == <<spc, scall, sargs, sconn, sqlParams, sresult, sreply, sfault, pkDecl>>
restoreVars == <<rpc, schema, schema0, backup, rpending, rdropped, rconn, rlog,
                 rexit, rstdout, rstderr, rresult, rfault>>
exportVars == <<xpc, xcall, xvalid, xdir, xsheets, xfile, xresult, xfault>>
nameVars == <<now, fop>>
wipeVars == <<wpc, wschema, wschema0, wseen, wtables, widx, removed, wconn, wlog,
              wresult, wreply, wfault>>
stageVars == <<qpc, qcall, qidx, qconn, qtable, qseen, qdir, qfile, qlog, qresult,
               qfault>>
vars == <<crudVars, packVars, sqlVars, restoreVars, exportVars, nameVars, wipeVars,
          stageVars>>

\* The variables an action of one part leaves alone.
notCrud == <<packVars, sqlVars, restoreVars, exportVars, nameVars, wipeVars,
             stageVars>>
notPack == <<crudVars, sqlVars, restoreVars, exportVars, nameVars, wipeVars,
             stageVars>>
notSql == <<crudVars, packVars, restoreVars, exportVars, nameVars, wipeVars,
            stageVars>>
notRestore == <<crudVars, packVars, sqlVars, exportVars, nameVars, wipeVars,
                stageVars>>
notExport == <<crudVars, packVars, sqlVars, restoreVars, nameVars, wipeVars,
               stageVars>>
notNames == <<crudVars, packVars, sqlVars, restoreVars, exportVars, wipeVars,
              stageVars>>
notWipe == <<crudVars, packVars, sqlVars, restoreVars, exportVars, nameVars,
            stageVars>>
notStage == <<crudVars, packVars, sqlVars, restoreVars, exportVars, nameVars,
             wipeVars>>

\* ------------------------------------------------------ values and text

\* A Python value that is None or a string (a sequence of tokens).
NoneVal == [null |-> TRUE, text |-> <<>>]
Str(s) == [null |-> FALSE, text |-> s]

IsSpace(t) == t \in {" ", "\t"}

RECURSIVE LStrip(_)
LStrip(s) == IF s # <<>> /\ IsSpace(Head(s)) THEN LStrip(Tail(s)) ELSE s

RECURSIVE RStrip(_)
RStrip(s) ==
    IF s # <<>> /\ IsSpace(s[Len(s)]) THEN RStrip(SubSeq(s, 1, Len(s) - 1)) ELSE s

\* str.strip()
Strip(s) == RStrip(LStrip(s))

\* The test without the strip.
ConditionEmptyNoStrip(c) == c.null \/ c.text = <<>>

\* `not condition or condition.strip() == ""'
ConditionEmpty(c) == c.null \/ c.text = <<>> \/ Strip(c.text) = <<>>

\* The text of the condition `id = k'.
KeyTok(k) == "id=" \o ToString(k)

\* Rows of the target table (by key) a WHERE condition selects; the server
\* skips the white space around the expression. ok = FALSE: a syntax error.
CondEval(text, rows) ==
    LET e == Strip(text) IN
    IF e = <<"true">> THEN [ok |-> TRUE, rows |-> rows]
    ELSE IF \E k \in Keys : e = <<KeyTok(k)>>
         THEN [ok |-> TRUE, rows |-> {k \in rows : e = <<KeyTok(k)>>}]
         ELSE [ok |-> FALSE, rows |-> {}]

\* ------------------------------------------------------------ statements

\* The referenced column of the target table, and the referencing column of
\* every referencing table.
PkCol == "id"
RefCol == "ref"
NoCol == ""

\* DELETE FROM "<rel>" WHERE "<col>" IN (SELECT "<sub>" FROM "<target>" WHERE <cond>)
DeleteIn(rel, col, sub, cond) ==
    [kind |-> "DELETE", table |-> rel, col |-> col, sub |-> sub, cond |-> cond]

\* SELECT COUNT(*) FROM "<rel>" WHERE "<col>" IN (SELECT "<sub>" FROM "<target>" WHERE <cond>)
CountIn(rel, col, sub, cond) ==
    [kind |-> "COUNT", table |-> rel, col |-> col, sub |-> sub, cond |-> cond]

\* DELETE FROM "<target>" WHERE <cond>
DeleteWhere(cond) ==
    [kind |-> "DELETE", table |-> Target, col |-> NoCol, sub |-> NoCol, cond |-> cond]

\* A query of information_schema sent through run_sql.
Catalog(what) ==
    [kind |-> "CATALOG", table |-> Target, col |-> what, sub |-> NoCol, cond |-> <<>>]

\* The rows of referencing table t that `col IN (SELECT sub FROM target WHERE
\* cond)' selects.  sub = "id" is a column of the target table.  sub = "ref" is
\* not: the name resolves to the outer row's own column, so every referencing
\* row is selected as soon as one target row matches the condition.
InRows(rows, t, sub, matched) ==
    IF sub = PkCol THEN rows[t] \cap matched
    ELSE IF matched # {} THEN rows[t] ELSE {}

\* What the server does with a statement inside a transaction that sees
\* `rows': ok = FALSE is a driver error (syntax error in the condition, or a
\* foreign-key violation: a referencing row still points at a deleted key).
Exec(stmt, rows, edges) ==
    LET ce == CondEval(stmt.cond, rows[Target]) IN
    IF ~ce.ok THEN [ok |-> FALSE, rows |-> rows, n |-> 0]
    ELSE IF stmt.table = Target
    THEN IF \E t \in 1..edges : rows[t] \cap ce.rows # {}
         THEN [ok |-> FALSE, rows |-> rows, n |-> 0]
         ELSE [ok |-> TRUE,
               rows |-> [rows EXCEPT ![Target] = @ \ ce.rows],
               n |-> Cardinality(ce.rows)]
    ELSE LET sel == InRows(rows, stmt.table, stmt.sub, ce.rows) IN
         IF stmt.kind = "DELETE"
         THEN [ok |-> TRUE,
               rows |-> [rows EXCEPT ![stmt.table] = @ \ sel],
               n |-> Cardinality(sel)]
         ELSE [ok |-> TRUE, rows |-> rows, n |-> Cardinality(sel)]

\* A connection that commits every statement as it is executed.
AutocommitOn == TRUE

\* psycopg2.connect without autocommit: statements take effect for others
\* only at conn.commit().
Autocommit == FALSE

\* The committed rows after a statement that left the transaction seeing
\* `seen'.
Visible(committed, seen) == IF Autocommit THEN seen ELSE committed

\* get_db_connection(dict_mode=True): the default cursor factory is
\* RealDictCursor, whose rows are mappings keyed by column name.
DictModeDefault == TRUE

\* The one row of a SELECT COUNT(*): a mapping under RealDictCursor, a row
\* that also answers to its position under DictCursor.
CountRow(dictRows, n) ==
    IF dictRows THEN [k \in {"count"} |-> n] ELSE [k \in {"0", "count"} |-> n]

\* row[0]: raises KeyError(0) when the row has no such key.
RowItem0(row) ==
    IF "0" \in DOMAIN row THEN [ok |-> TRUE, val |-> row["0"]]
    ELSE [ok |-> FALSE, val |-> 0]

\* get_related_tables: the inbound edges in the order the catalog lists them.
RelatedTables(edges) ==
    [i \in 1..edges |-> [referencing_table |-> i, referencing_column |-> RefCol]]

\* get_table_pk: the first primary-key column, or None (here NoCol) when there
\* is none or when run_sql returned None.
GetTablePk(pkDeclared, catalogOk) ==
    IF catalogOk /\ pkDeclared THEN PkCol ELSE NoCol

\* ---------------------------------------------------------------- results

DriverError == "driver error"
NotIterable == "'NoneType' object is not iterable"
KeyError0 == "0"

\* The dict a row operation returns; changed = -1, has_relations = FALSE and
\* relations = <<>> stand for keys the dict does not carry.
Result(ok, msg, changed, rels) ==
    [ok |-> ok, msg |-> msg, changed |-> changed,
     has_relations |-> rels # <<>>, relations |-> rels]

NoResult == Result(FALSE, "", -1, <<>>)

\* The JSON body a handler of main.py answers with; id = -1 and error = ""
\* stand for keys the body does not carry.
Response(ok, msg, id, error) == [ok |-> ok, msg |-> msg, id |-> id, error |-> error]
NoResponse == [ok |-> FALSE, msg |-> "", id |-> -1, error |-> "none yet"]
NoConn == [state |-> "none", dictRows |-> DictModeDefault]

\* ----------------------------------------------------- the row operations

\* Conditions a caller may pass: missing, empty, blank, `id = k' with and
\* without white space around it, `true', and one the server cannot parse.
CondInputs ==
    {NoneVal, Str(<<>>), Str(<<" ">>), Str(<<" ", "\t">>), Str(<<"true">>),
     Str(<<"id=">>)}
    \cup {Str(<<KeyTok(k)>>) : k \in Keys}
    \cup {Str(<<" ", KeyTok(k), " ">>) : k \in Keys}

NoData == <<>>
NoOp == [name |-> "none", condition |-> NoneVal, cascade |-> FALSE, data |-> NoData]

Transient ==
    /\ conn = NoConn
    /\ tx = db
    /\ log = <<>>
    /\ opened = 0
    /\ commits = 0
    /\ related = <<>>
    /\ idx = 0
    /\ relInfo = <<>>
    /\ kept = <<>>
    /\ pkFound = NoCol
    /\ result = NoResult
    /\ db0 = db
    /\ fault = {}
    /\ response = NoResponse

\* A caller invokes remove_row(table, condition, cascade) or
\* safe_remove(table, condition) on the target table.
CallRemove ==
    /\ pc = "idle"
    /\ \E name \in {"remove_row", "safe_remove"}, c \in CondInputs, casc \in BOOLEAN :
        /\ name = "safe_remove" => ~casc
        /\ op' = [name |-> name, condition |-> c, cascade |-> casc, data |-> NoData]
    /\ pc' = "validate"
    /\ UNCHANGED <<db, nEdges, hasPk, conn, tx, log, opened, commits, related,
                   idx, relInfo, result, db0, fault, kept, pkFound>>
    /\ UNCHANGED <<response, notCrud>>

\* remove_row that never walks the inbound edges.
AfterConnectNoCascade(o) ==
    IF o.name = "remove_row" THEN "delete" ELSE "discover"

\* Where a call goes once it holds its connection.
AfterConnect(o) ==
    IF o.name = "remove_row" /\ ~o.cascade THEN "delete" ELSE "discover"

\* `if not condition or condition.strip() == "": return {"ok": False, ...}'
ValidateCondition ==
    /\ pc = "validate"
    /\ IF ConditionEmpty(op.condition)
       THEN /\ result' = Result(FALSE, "Condition cannot be empty", -1, <<>>)
            /\ pc' = "done"
       ELSE /\ result' = result
            /\ pc' = IF op.name = "modify_row" THEN "columns" ELSE "connect"
    /\ UNCHANGED <<db, nEdges, hasPk, op, conn, tx, log, opened, commits,
                   related, idx, relInfo, db0, fault, kept, pkFound>>
    /\ UNCHANGED <<response, notCrud>>

\* conn = self.get_db_connection(); psycopg2.connect may fail, and the call
\* then returns "Cannot connect to DB".
Connect ==
    /\ pc = "connect"
    /\ opened' = opened + 1
    /\ \E up \in BOOLEAN :
        IF up
        THEN /\ conn' = [state |-> "open", dictRows |-> DictModeDefault]
             /\ tx' = db
             /\ pc' = AfterConnect(op)
             /\ UNCHANGED <<result, fault>>
        ELSE /\ result' = Result(FALSE, "Cannot connect to DB", -1, <<>>)
             /\ fault' = fault \cup {"connect"}
             /\ pc' = "done"
             /\ UNCHANGED <<conn, tx>>
    /\ UNCHANGED <<db, nEdges, hasPk, op, log, commits, related, idx, relInfo, db0, kept, pkFound>>
    /\ UNCHANGED <<response, notCrud>>

\* A loop that takes None for the empty list.
IterateNoneAsEmpty(none) == TRUE

\* `for rel_table in related_tables': FALSE when related_tables is None,
\* which is not iterable (TypeError).
Iterate(none) == ~none

\* related_tables = self.get_related_tables(table_name): run_sql on a
\* connection of its own; it returns None when that connection or the query
\* fails, and the `for' over None raises TypeError.
Discover ==
    /\ pc = "discover"
    /\ opened' = opened + 1
    /\ \E up \in BOOLEAN :
        /\ log' = IF up
                  THEN Append(log, [conn |-> opened + 1, stmt |-> Catalog("related")])
                  ELSE log
        /\ fault' = IF up THEN fault ELSE fault \cup {"catalog"}
        /\ IF Iterate(~up)
           THEN /\ related' = IF up THEN RelatedTables(nEdges) ELSE <<>>
                /\ idx' = 1
                /\ pc' = "loop"
                /\ UNCHANGED result
           ELSE /\ result' = Result(FALSE, NotIterable, -1, <<>>)
                /\ pc' = "done"
                /\ UNCHANGED <<related, idx>>
    /\ UNCHANGED <<db, nEdges, hasPk, op, conn, tx, commits, relInfo, db0, kept, pkFound>>
    /\ UNCHANGED <<response, notCrud>>

\* The inner SELECT of the statement built for one edge: the primary key of
\* the target when get_table_pk found one, else the edge's own column.
SubqueryColumn(pk, relColumn) == IF pk = NoCol THEN relColumn ELSE pk

\* One pass of `for rel_table in related_tables' of remove_row: get_table_pk
\* (a catalog query on a connection of its own), then the DELETE on the
\* referencing table, executed on the operation's cursor.
CascadeStep ==
    /\ pc = "loop"
    /\ op.name = "remove_row"
    /\ idx <= Len(related)
    /\ opened' = opened + 1
    /\ \E catalogOk \in BOOLEAN, driverOk \in BOOLEAN :
        LET rel == related[idx]
            pk == GetTablePk(hasPk, catalogOk)
            stmt == DeleteIn(rel.referencing_table, rel.referencing_column,
                             SubqueryColumn(pk, rel.referencing_column),
                             op.condition.text)
            sent == log \o (IF catalogOk
                            THEN <<[conn |-> opened + 1, stmt |-> Catalog("pk")]>>
                            ELSE <<>>)
                        \o <<[conn |-> 1, stmt |-> stmt]>>
            r == Exec(stmt, tx, nEdges)
            seen == IF catalogOk THEN fault ELSE fault \cup {"catalog"}
        IN  /\ log' = sent
            /\ IF driverOk /\ r.ok
               THEN /\ tx' = r.rows
                    /\ db' = Visible(db, r.rows)
                    /\ idx' = idx + 1
                    /\ pc' = "loop"
                    /\ fault' = seen
                    /\ UNCHANGED result
               ELSE /\ result' = Result(FALSE, DriverError, -1, <<>>)
                    /\ fault' = seen \cup {"statement"}
                    /\ pc' = "done"
                    /\ UNCHANGED <<db, tx, idx>>
    /\ UNCHANGED <<nEdges, hasPk, op, conn, commits, related, relInfo, db0, kept,
                   pkFound>>
    /\ UNCHANGED <<response, notCrud>>

\* One pass of the loop of safe_remove: get_table_pk, the SELECT COUNT(*) on
\* the referencing table, `count = cursor.fetchone()[0]', and the entry of
\* relation_info when the count is not zero.
CountStep ==
    /\ pc = "loop"
    /\ op.name = "safe_remove"
    /\ idx <= Len(related)
    /\ opened' = opened + 1
    /\ \E catalogOk \in BOOLEAN, driverOk \in BOOLEAN :
        LET rel == related[idx]
            pk == GetTablePk(hasPk, catalogOk)
            stmt == CountIn(rel.referencing_table, rel.referencing_column,
                            SubqueryColumn(pk, rel.referencing_column),
                            op.condition.text)
            sent == log \o (IF catalogOk
                            THEN <<[conn |-> opened + 1, stmt |-> Catalog("pk")]>>
                            ELSE <<>>)
                        \o <<[conn |-> 1, stmt |-> stmt]>>
            r == Exec(stmt, tx, nEdges)
            seen == IF catalogOk THEN fault ELSE fault \cup {"catalog"}
            item == RowItem0(CountRow(conn.dictRows, r.n))
        IN  /\ log' = sent
            /\ IF ~(driverOk /\ r.ok)
               THEN /\ result' = Result(FALSE, DriverError, -1, <<>>)
                    /\ fault' = seen \cup {"statement"}
                    /\ pc' = "done"
                    /\ UNCHANGED <<idx, relInfo>>
               ELSE IF ~item.ok
               THEN /\ result' = Result(FALSE, KeyError0, -1, <<>>)
                    /\ pc' = "done"
                    /\ fault' = seen
                    /\ UNCHANGED <<idx, relInfo>>
               ELSE /\ relInfo' =
                         IF item.val > 0
                         THEN Append(relInfo, [table |-> rel.referencing_table,
                                               column |-> rel.referencing_column,
                                               count |-> item.val])
                         ELSE relInfo
                    /\ idx' = idx + 1
                    /\ pc' = "loop"
                    /\ fault' = seen
                    /\ UNCHANGED result
    /\ UNCHANGED <<db, nEdges, hasPk, op, conn, tx, commits, related, db0, kept, pkFound>>
    /\ UNCHANGED <<response, notCrud>>

\* The loop is over.  safe_remove with has_relations closes the connection
\* and returns the blocking edges; otherwise the call goes on to the DELETE
\* on the target table.
LoopDone ==
    /\ pc = "loop"
    /\ idx > Len(related)
    /\ IF op.name = "safe_remove" /\ relInfo # <<>>
       THEN /\ conn' = [conn EXCEPT !.state = "closed"]
            /\ result' = Result(FALSE, "Found related records", -1, relInfo)
            /\ pc' = "done"
       ELSE /\ pc' = "delete"
            /\ UNCHANGED <<conn, result>>
    /\ UNCHANGED <<db, nEdges, hasPk, op, tx, log, opened, commits, related,
                   idx, relInfo, db0, fault, kept, pkFound>>
    /\ UNCHANGED <<response, notCrud>>

\* DELETE FROM "<table>" WHERE <condition>; changed = cursor.rowcount;
\* conn.commit(); conn.close().  A driver error leaves the except branch to
\* return ok = False: nothing is committed and the connection is dropped
\* without a close.
DeleteTarget ==
    /\ pc = "delete"
    /\ \E driverOk \in BOOLEAN :
        LET stmt == DeleteWhere(op.condition.text)
            r == Exec(stmt, tx, nEdges)
        IN  /\ log' = Append(log, [conn |-> 1, stmt |-> stmt])
            /\ IF driverOk /\ r.ok
               THEN /\ tx' = r.rows
                    /\ db' = r.rows
                    /\ commits' = commits + 1
                    /\ conn' = [conn EXCEPT !.state = "closed"]
                    /\ result' = Result(TRUE, "Removed", r.n, <<>>)
                    /\ UNCHANGED fault
               ELSE /\ result' = Result(FALSE, DriverError, -1, <<>>)
                    /\ fault' = fault \cup {"statement"}
                    /\ UNCHANGED <<tx, db, commits, conn>>
    /\ pc' = "done"
    /\ UNCHANGED <<nEdges, hasPk, op, opened, related, idx, relInfo, db0, kept, pkFound>>
    /\ UNCHANGED <<response, notCrud>>

\* The call has returned; the next call starts from the committed rows.
Return ==
    /\ pc = "done"
    /\ pc' = "idle"
    /\ conn' = NoConn
    /\ tx' = db
    /\ log' = <<>>
    /\ opened' = 0
    /\ commits' = 0
    /\ related' = <<>>
    /\ idx' = 0
    /\ relInfo' = <<>>
    /\ kept' = <<>>
    /\ pkFound' = NoCol
    /\ result' = NoResult
    /\ db0' = db
    /\ fault' = {}
    /\ op' = NoOp
    /\ response' = NoResponse
    /\ UNCHANGED <<db, nEdges, hasPk>>
    /\ UNCHANGED notCrud

\* ------------------------------------------------- add_row and modify_row

\* get_table_info of the target table: information_schema.columns in
\* ordinal order.  "id" is filled by its sequence; "name" is NOT NULL and has
\* no default; "note" is nullable.
ColumnsInfo ==
    << [column_name |-> "id", is_nullable |-> "NO"],
       [column_name |-> "name", is_nullable |-> "NO"],
       [column_name |-> "note", is_nullable |-> "YES"] >>

\* The keys a caller sends in `data' and the values it sends for them: None,
\* the empty string, a non-empty string.
DataKeys == {"name", "note"}
DataValues == {NoneVal, Str(<<>>), Str(<<"x">>)}

\* data: a dict, that is, distinct keys in insertion order.
DataInputs ==
    {d \in UNION {[1..n -> [key : DataKeys, value : DataValues]] : n \in 0..2} :
        \A i, j \in DOMAIN d : i # j => d[i].key # d[j].key}

Range(f) == {f[i] : i \in DOMAIN f}

\* `value is not None and value != ""'
HasValue(v) == ~v.null /\ v.text # <<>>

\* The filtering loop shared by add_row and modify_row: a field with a value
\* is kept, an empty field of a column listed in `nullable' is kept as None,
\* any other empty field is dropped.
RECURSIVE FilterData(_, _)
FilterData(data, nullable) ==
    IF data = <<>> THEN <<>>
    ELSE LET f == Head(data)
             rest == FilterData(Tail(data), nullable)
         IN  IF HasValue(f.value) THEN <<f>> \o rest
             ELSE IF f.key \in nullable
                  THEN <<[key |-> f.key, value |-> NoneVal]>> \o rest
                  ELSE rest

\* The list taken without the is_nullable test.
NullableColumnsUnfiltered(info) == {c.column_name : c \in Range(info)}

\* add_row: [col['column_name'] for col in columns_info if col['is_nullable'] == 'YES']
NullableColumns(info) ==
    {c.column_name : c \in {x \in Range(info) : x.is_nullable = "YES"}}

\* modify_row: [col['column_name'] for col in columns_info] if columns_info else []
ModifyNullableColumns(info) == {c.column_name : c \in Range(info)}

\* An INSERT whose text spells the values out.
InsertStmtInline(fields, pk) ==
    [kind |-> "INSERT", table |-> Target,
     cols |-> [i \in DOMAIN fields |-> fields[i].key],
     params |-> [i \in DOMAIN fields |-> fields[i].value],
     literals |-> [i \in DOMAIN fields |-> fields[i].value],
     returning |-> pk, cond |-> <<"true">>]

\* INSERT INTO "<table>" (<cols>) VALUES (%s, ...) [RETURNING "<pk>"], with
\* the values as the bound parameters.  literals: the values the text of the
\* statement spells out itself, none as every value has its %s placeholder.
InsertStmt(fields, pk) ==
    [kind |-> "INSERT", table |-> Target,
     cols |-> [i \in DOMAIN fields |-> fields[i].key],
     params |-> [i \in DOMAIN fields |-> fields[i].value],
     literals |-> <<>>,
     returning |-> pk, cond |-> <<"true">>]

\* UPDATE "<table>" SET "<col>" = %s, ... WHERE <condition>
UpdateStmt(fields, cond) ==
    [kind |-> "UPDATE", table |-> Target,
     cols |-> [i \in DOMAIN fields |-> fields[i].key],
     params |-> [i \in DOMAIN fields |-> fields[i].value],
     literals |-> <<>>,
     returning |-> NoCol, cond |-> cond]

\* The text of an INSERT or UPDATE, the string handed to cursor.execute: the
\* table, the quoted column names, one %s per column, the RETURNING column,
\* the condition, and whatever value it spells out.
StmtText(stmt) ==
    [kind |-> stmt.kind, table |-> stmt.table, cols |-> stmt.cols,
     placeholders |-> Len(stmt.params), returning |-> stmt.returning,
     cond |-> stmt.cond, literals |-> stmt.literals]

\* A column the statement leaves NULL although it is declared NOT NULL and has
\* no default: the server rejects the statement.
NotNullViolated(stmt) ==
    \/ stmt.kind = "INSERT" /\ "name" \notin Range(stmt.cols)
    \/ \E i \in DOMAIN stmt.cols : stmt.cols[i] = "name" /\ stmt.params[i].null

FreeKeys(rows) == Keys \ rows[Target]
NextKey(rows) == CHOOSE k \in FreeKeys(rows) : \A j \in FreeKeys(rows) : k <= j

\* What the server does with an INSERT or UPDATE: n is the row count, id the
\* key RETURNING yields.
ExecWrite(stmt, rows) ==
    LET ce == CondEval(stmt.cond, rows[Target]) IN
    IF ~ce.ok \/ NotNullViolated(stmt)
    THEN [ok |-> FALSE, rows |-> rows, n |-> 0, id |-> 0]
    ELSE IF stmt.kind = "INSERT"
    THEN [ok |-> TRUE,
          rows |-> [rows EXCEPT ![Target] = @ \cup {NextKey(rows)}],
          n |-> 1, id |-> NextKey(rows)]
    ELSE [ok |-> TRUE, rows |-> rows, n |-> Cardinality(ce.rows), id |-> 0]

\* add_row returns a bare value, the inserted id or None: ok tells which,
\* changed carries the id.
ReturnedNone == Result(FALSE, "None", -1, <<>>)
ReturnedId(id) == Result(TRUE, "id", id, <<>>)

\* A caller invokes add_row(table, data) or modify_row(table, data,
\* condition) on the target table.  Neither looks at the foreign keys: they
\* are run on the schemas without referencing tables.  add_row is called
\* while the key range of the table has a free key.
CallWrite ==
    /\ pc = "idle"
    /\ nEdges = 0
    /\ \E name \in {"add_row", "modify_row"}, d \in DataInputs, c \in CondInputs :
        /\ name = "add_row" => c = NoneVal /\ FreeKeys(db) # {}
        /\ op' = [name |-> name, condition |-> c, cascade |-> FALSE, data |-> d]
        /\ pc' = IF name = "add_row" THEN "columns" ELSE "validate"
    /\ UNCHANGED <<db, nEdges, hasPk, conn, tx, log, opened, commits, related,
                   idx, relInfo, kept, pkFound, result, db0, fault>>
    /\ UNCHANGED <<response, notCrud>>

\* columns_info = self.get_table_info(table_name), the filtering loop, and the
\* early returns: add_row returns None when run_sql gave nothing or nothing is
\* left to insert; modify_row takes a failed lookup as "no nullable column"
\* and returns "No data to update" when nothing is left.
FilterFields ==
    /\ pc = "columns"
    /\ opened' = opened + 1
    /\ \E catalogOk \in BOOLEAN :
        LET info == IF catalogOk THEN ColumnsInfo ELSE <<>>
            clean == IF op.name = "add_row"
                     THEN FilterData(op.data, NullableColumns(info))
                     ELSE FilterData(op.data, ModifyNullableColumns(info))
        IN  /\ log' = IF catalogOk
                      THEN Append(log, [conn |-> opened + 1, stmt |-> Catalog("columns")])
                      ELSE log
            /\ fault' = IF catalogOk THEN fault ELSE fault \cup {"catalog"}
            /\ IF op.name = "add_row" /\ info = <<>>
               THEN /\ result' = ReturnedNone
                    /\ pc' = "done"
                    /\ UNCHANGED kept
               ELSE IF clean = <<>>
               THEN /\ result' = IF op.name = "add_row"
                                 THEN ReturnedNone
                                 ELSE Result(FALSE, "No data to update", -1, <<>>)
                    /\ pc' = "done"
                    /\ UNCHANGED kept
               ELSE /\ kept' = clean
                    /\ pc' = IF op.name = "add_row" THEN "pk" ELSE "write"
                    /\ UNCHANGED result
    /\ UNCHANGED <<db, nEdges, hasPk, op, conn, tx, commits, related, idx,
                   relInfo, pkFound, db0>>
    /\ UNCHANGED <<response, notCrud>>

\* add_row: pk = self.get_table_pk(table_name), a catalog query on its own
\* connection.
LookupPk ==
    /\ pc = "pk"
    /\ opened' = opened + 1
    /\ \E catalogOk \in BOOLEAN :
        /\ pkFound' = GetTablePk(hasPk, catalogOk)
        /\ log' = IF catalogOk
                  THEN Append(log, [conn |-> opened + 1, stmt |-> Catalog("pk")])
                  ELSE log
        /\ fault' = IF catalogOk THEN fault ELSE fault \cup {"catalog"}
    /\ pc' = "write"
    /\ UNCHANGED <<db, nEdges, hasPk, op, conn, tx, commits, related, idx,
                   relInfo, kept, result, db0>>
    /\ UNCHANGED <<response, notCrud>>

\* conn = self.get_db_connection(); cursor.execute(sql, tuple(values)); the
\* fetch of the RETURNING row; conn.commit(); conn.close().  Without a
\* connection add_row returns None and modify_row "Cannot connect to DB"; a
\* driver error goes to the except branch, which neither commits nor closes.
ExecuteWrite ==
    /\ pc = "write"
    /\ opened' = opened + 1
    /\ \E outcome \in {"refused", "error", "ok"} :
        LET stmt == IF op.name = "add_row"
                    THEN InsertStmt(kept, pkFound)
                    ELSE UpdateStmt(kept, op.condition.text)
            r == ExecWrite(stmt, db)
        IN  IF outcome = "refused"
            THEN /\ result' = IF op.name = "add_row"
                              THEN ReturnedNone
                              ELSE Result(FALSE, "Cannot connect to DB", -1, <<>>)
                 /\ fault' = fault \cup {"connect"}
                 /\ UNCHANGED <<db, tx, log, commits, conn>>
            ELSE /\ log' = Append(log, [conn |-> opened + 1, stmt |-> stmt])
                 /\ IF outcome = "ok" /\ r.ok
                    THEN /\ db' = r.rows
                         /\ tx' = r.rows
                         /\ commits' = commits + 1
                         /\ conn' = [conn EXCEPT !.state = "closed"]
                         /\ result' = IF op.name = "modify_row"
                                      THEN Result(TRUE, "Updated", r.n, <<>>)
                                      ELSE IF stmt.returning = NoCol
                                      THEN ReturnedNone
                                      ELSE ReturnedId(r.id)
                         /\ UNCHANGED fault
                    ELSE /\ result' = IF op.name = "add_row"
                                      THEN ReturnedNone
                                      ELSE Result(FALSE, DriverError, -1, <<>>)
                         /\ fault' = fault \cup {"statement"}
                         /\ conn' = [conn EXCEPT !.state = "open"]
                         /\ UNCHANGED <<db, tx, commits>>
    /\ pc' = "done"
    /\ UNCHANGED <<nEdges, hasPk, op, related, idx, relInfo, kept, pkFound, db0>>
    /\ UNCHANGED <<response, notCrud>>

\* The end of the /api/add handler: `result = db.add_row(table, data)', then
\* ok = True with the id when result is not None, and ok = True without an id
\* when it is None.
ApiAddReply(returned) ==
    IF returned # ReturnedNone THEN Response(TRUE, "added", returned.changed, "")
    ELSE Response(TRUE, "added", -1, "")

\* The /api/add handler answers once db.add_row has returned.  What it does
\* before the call (its own get_table_info, and None in place of "" for the
\* nullable columns) leaves every field as empty or as filled as it was, and
\* add_row treats None and "" alike.
ApiAddRow ==
    /\ pc = "done"
    /\ op.name = "add_row"
    /\ response = NoResponse
    /\ response' = ApiAddReply(result)
    /\ UNCHANGED <<db, nEdges, hasPk, pc, op, conn, tx, log, opened, commits,
                   related, idx, relInfo, kept, pkFound, result, db0, fault>>
    /\ UNCHANGED notCrud

\* ------------------------------------------------------------ pack_tables

\* Table names a caller may hand to pack_tables.
PackNames == 1..MaxTables

\* table_names: a list of distinct names (pack_all_tables passes
\* get_all_tables(), the pack form a selection).
PackRequests ==
    {r \in UNION {[1..n -> PackNames] : n \in 0..MaxTables} :
        \A i, j \in DOMAIN r : i # j => r[i] # r[j]}

\* One entry of `results': the dict of a packed table (dict = TRUE, status
\* "ok") or the bare message string of a failed one (dict = FALSE), which
\* carries the table's name inside its text.
PackedEntry(t, rows) ==
    [dict |-> TRUE, table |-> t, status |-> "ok", text |-> "",
     backup_file |-> <<t, "backup">>, excel_file |-> <<t, "xlsx">>,
     json_file |-> <<t, "json">>, rows |-> rows]

ErrorEntry(t, text) ==
    [dict |-> FALSE, table |-> t, status |-> "", text |-> text,
     backup_file |-> <<>>, excel_file |-> <<>>, json_file |-> <<>>, rows |-> 0]

\* Every entry counted as packed.
PackedTablesAll(res) == res

\* packed_tables = [r for r in results if isinstance(r, dict) and r.get('status') == 'ok']
PackedTables(res) == SelectSeq(res, LAMBDA r : r.dict /\ r.status = "ok")

\* What pack_tables returns: (False, message) or (True, dict with msg,
\* packed, total, details); counts = FALSE when only a message is returned.
PackFailure(msg) ==
    [ok |-> FALSE, msg |-> msg, counts |-> FALSE, packed |-> 0, total |-> 0,
     details |-> <<>>]

PackSuccess(msg, res, tables) ==
    [ok |-> TRUE, msg |-> msg, counts |-> TRUE, packed |-> Len(PackedTables(res)),
     total |-> Len(tables), details |-> res]

NoManifest ==
    [written |-> FALSE, time |-> "", packed |-> 0, total |-> 0, results |-> <<>>]
NoPackResult == PackFailure("")

\* A return statement without the "partially packed" branch.
PackOutcomeAllOrNothing(good, res, tables) ==
    IF good THEN PackSuccess("Pack complete", res, tables)
    ELSE PackFailure("Failed to pack any tables")

\* The return statement of pack_tables once the manifest is on disk.
PackOutcome(good, res, tables) ==
    IF good THEN PackSuccess("Pack complete", res, tables)
    ELSE IF PackedTables(res) # <<>> THEN PackSuccess("Partially packed", res, tables)
    ELSE PackFailure("Failed to pack any tables")

\* The table the loop is at.
Current == valid[pidx]

\* A loop body that drops the table right after its backup.
StepAfterDropFirst(step) ==
    IF step = "backup" THEN "drop"
    ELSE IF step = "drop" THEN "backup"
    ELSE IF step = "tabular" THEN "structured" ELSE "drop"

\* The order of the statements of the loop body: backup, xlsx, json, drop,
\* then the next table's backup.
StepAfter(step) ==
    IF step = "backup" THEN "tabular"
    ELSE IF step = "tabular" THEN "structured"
    ELSE IF step = "structured" THEN "drop" ELSE "backup"

\* A manifest that lists the packed tables only.
WriteManifestPackedOnly(res, tables) ==
    [written |-> TRUE, time |-> "now", packed |-> Len(PackedTables(res)),
     total |-> Len(tables), results |-> PackedTables(res)]

\* pack_info = {'time', 'packed', 'total', 'results'}, dumped to
\* pack_info_<time>.json.
WriteManifest(res, tables) ==
    [written |-> TRUE, time |-> "now", packed |-> Len(PackedTables(res)),
     total |-> Len(tables), results |-> res]

PackCall ==
    /\ ppc = "idle"
    /\ \E r \in PackRequests : request' = r
    /\ ppc' = "filter"
    /\ existing0' = existing
    /\ UNCHANGED <<existing, rowsOf, valid, pidx, rowCount, steps, files, archiveDir,
                   results, allGood, manifest, presult, pfault>>
    /\ UNCHANGED notPack

\* `if not table_names', the table_present filter, `if not valid_tables'.
\* table_present answers False for a table whose catalog query failed.
PackFilter ==
    /\ ppc = "filter"
    /\ \E lost \in SUBSET (Range(request) \cap existing) :
        LET found == SelectSeq(request, LAMBDA t : t \in existing \ lost) IN
        /\ pfault' = IF lost = {} THEN pfault ELSE pfault \cup {"catalog"}
        /\ IF request = <<>>
           THEN /\ presult' = PackFailure("No tables selected")
                /\ ppc' = "done"
                /\ UNCHANGED valid
           ELSE IF found = <<>>
           THEN /\ presult' = PackFailure("No valid tables found")
                /\ ppc' = "done"
                /\ UNCHANGED valid
           ELSE /\ valid' = found
                /\ ppc' = "mkdir"
                /\ UNCHANGED presult
    /\ UNCHANGED <<existing, existing0, rowsOf, request, pidx, rowCount, steps, files,
                   archiveDir, results, allGood, manifest>>
    /\ UNCHANGED notPack

\* archive_dir = self.create_folder_with_time(...); a failing mkdir leaves
\* by the outer except.
PackMkdir ==
    /\ ppc = "mkdir"
    /\ \E made \in BOOLEAN :
        IF made
        THEN /\ archiveDir' = TRUE
             /\ pidx' = 1
             /\ ppc' = "backup"
             /\ UNCHANGED <<presult, pfault>>
        ELSE /\ presult' = PackFailure("Pack exception")
             /\ pfault' = pfault \cup {"mkdir"}
             /\ ppc' = "done"
             /\ UNCHANGED <<archiveDir, pidx>>
    /\ UNCHANGED <<existing, existing0, rowsOf, request, valid, rowCount, steps, files,
                   results, allGood, manifest>>
    /\ UNCHANGED notPack

\* An error entry that ends the whole loop.
FailTableAbort(text) ==
    /\ results' = Append(results, ErrorEntry(Current, text))
    /\ allGood' = FALSE
    /\ pidx' = Len(valid) + 1
    /\ ppc' = "backup"

\* The table's turn is over with an error entry.
FailTable(text) ==
    /\ results' = Append(results, ErrorEntry(Current, text))
    /\ allGood' = FALSE
    /\ pidx' = pidx + 1
    /\ ppc' = "backup"

\* Top of the loop: create_single_table_backup runs pg_dump -t <table>; a
\* nonzero exit or an exception yields backup_ok = False and the `continue'.
\* After the last table the loop is left.
PackBackup ==
    /\ ppc = "backup"
    /\ IF pidx > Len(valid)
       THEN /\ ppc' = "manifest"
            /\ UNCHANGED <<pidx, steps, files, results, allGood, pfault>>
       ELSE \E dumped \in BOOLEAN :
             IF dumped /\ Current \in existing
             THEN /\ steps' = Append(steps, <<Current, "backup">>)
                  /\ files' = files \cup {<<Current, "backup">>}
                  /\ ppc' = StepAfter("backup")
                  /\ UNCHANGED <<pidx, results, allGood, pfault>>
             ELSE /\ FailTable("Backup error")
                  /\ pfault' = pfault \cup {"backup"}
                  /\ UNCHANGED <<steps, files>>
    /\ UNCHANGED <<existing, existing0, rowsOf, request, valid, rowCount, archiveDir,
                   manifest, presult>>
    /\ UNCHANGED notPack

\* data = self.get_table_rows(table) (None when run_sql failed); row_count;
\* the xlsx file, written only `if data'; to_excel may raise.
PackTabular ==
    /\ ppc = "tabular"
    /\ \E read \in BOOLEAN, wrote \in BOOLEAN :
        LET count == IF read THEN rowsOf[Current] ELSE 0 IN
        /\ pfault' = pfault \cup (IF read THEN {} ELSE {"read"})
                            \cup (IF wrote THEN {} ELSE {"snapshot"})
        /\ IF count = 0
           THEN /\ wrote
                /\ rowCount' = count
                /\ steps' = Append(steps, <<Current, "tabular">>)
                /\ ppc' = StepAfter("tabular")
                /\ UNCHANGED <<pidx, files, results, allGood>>
           ELSE IF wrote
           THEN /\ rowCount' = count
                /\ steps' = Append(steps, <<Current, "tabular">>)
                /\ files' = files \cup {<<Current, "xlsx">>}
                /\ ppc' = StepAfter("tabular")
                /\ UNCHANGED <<pidx, results, allGood>>
           ELSE /\ FailTable("Error packing table")
                /\ UNCHANGED <<rowCount, steps, files>>
    /\ UNCHANGED <<existing, existing0, rowsOf, request, valid, archiveDir,
                   manifest, presult>>
    /\ UNCHANGED notPack

\* The json file: always opened and written, also for no rows; open or
\* json.dump may raise.
PackStructured ==
    /\ ppc = "structured"
    /\ \E wrote \in BOOLEAN :
        IF wrote
        THEN /\ steps' = Append(steps, <<Current, "structured">>)
             /\ files' = files \cup {<<Current, "json">>}
             /\ ppc' = StepAfter("structured")
             /\ UNCHANGED <<pidx, results, allGood, pfault>>
        ELSE /\ FailTable("Error packing table")
             /\ pfault' = pfault \cup {"snapshot"}
             /\ UNCHANGED <<steps, files>>
    /\ UNCHANGED <<existing, existing0, rowsOf, request, valid, rowCount, archiveDir,
                   manifest, presult>>
    /\ UNCHANGED notPack

\* drop_ok = self.drop_table_completely(table): DROP TABLE IF EXISTS ...
\* CASCADE, committed; False when the connection or the statement fails.
PackDrop ==
    /\ ppc = "drop"
    /\ \E dropped \in BOOLEAN :
        IF dropped
        THEN /\ existing' = existing \ {Current}
             /\ steps' = Append(steps, <<Current, "drop">>)
             /\ results' = Append(results, PackedEntry(Current, rowCount))
             /\ pidx' = pidx + 1
             /\ ppc' = StepAfter("drop")
             /\ UNCHANGED <<allGood, pfault>>
        ELSE /\ FailTable("Error dropping table")
             /\ pfault' = pfault \cup {"drop"}
             /\ UNCHANGED <<existing, steps>>
    /\ UNCHANGED <<existing0, rowsOf, request, valid, rowCount, files, archiveDir,
                   manifest, presult>>
    /\ UNCHANGED notPack

\* pack_info is written to pack_info_<time>.json and the result is returned;
\* when the write raises, the outer except returns "Pack exception".
PackManifest ==
    /\ ppc = "manifest"
    /\ \E wrote \in BOOLEAN :
        IF wrote
        THEN /\ manifest' = WriteManifest(results, valid)
             /\ presult' = PackOutcome(allGood, results, valid)
             /\ UNCHANGED pfault
        ELSE /\ presult' = PackFailure("Pack exception")
             /\ pfault' = pfault \cup {"manifest"}
             /\ UNCHANGED manifest
    /\ ppc' = "done"
    /\ UNCHANGED <<existing, existing0, rowsOf, request, valid, pidx, rowCount, steps,
                   files, archiveDir, results, allGood>>
    /\ UNCHANGED notPack

\* pack_tables has returned.
PackReturn ==
    /\ ppc = "done"
    /\ ppc' = "idle"
    /\ existing0' = existing
    /\ request' = <<>>
    /\ valid' = <<>>
    /\ pidx' = 0
    /\ rowCount' = 0
    /\ steps' = <<>>
    /\ files' = {}
    /\ archiveDir' = FALSE
    /\ results' = <<>>
    /\ allGood' = TRUE
    /\ manifest' = NoManifest
    /\ presult' = NoPackResult
    /\ pfault' = {}
    /\ UNCHANGED <<existing, rowsOf>>
    /\ UNCHANGED notPack

\* ------------------------------------------------ run_sql and its callers

\* Python values handed to run_sql as params: None, a list, a tuple, a dict
\* (keys and values in insertion order) or a string (JSON text, in tokens).
PyNone == [type |-> "none"]
PyList(items) == [type |-> "list", items |-> items]
PyTuple(items) == [type |-> "tuple", items |-> items]
PyDict(keys, vals) == [type |-> "dict", keys |-> keys, vals |-> vals]
PyStr(text) == [type |-> "str", text |-> text]

\* `not params'
Falsy(p) ==
    \/ p.type = "none"
    \/ p.type \in {"list", "tuple"} /\ p.items = <<>>
    \/ p.type = "dict" /\ p.keys = <<>>
    \/ p.type = "str" /\ p.text = <<>>

\* The punctuation of a JSON text of one array or one object of strings.
Punct == {"[", "]", "{", "}", ",", ":"}

\* json.dumps of a list or of a dict.
JsonDumps(v) ==
    IF v.type = "list"
    THEN <<"[">>
         \o [i \in 1..(2 * Len(v.items) - 1) |->
                IF i % 2 = 1 THEN v.items[(i + 1) \div 2] ELSE ","]
         \o <<"]">>
    ELSE <<"{">>
         \o [i \in 1..(4 * Len(v.keys) - 1) |->
                CASE i % 4 = 1 -> v.keys[(i + 3) \div 4]
                  [] i % 4 = 2 -> ":"
                  [] i % 4 = 3 -> v.vals[(i + 1) \div 4]
                  [] OTHER -> ","]
         \o <<"}">>

\* json.loads: ok = FALSE is a JSONDecodeError.
JsonLoads(text) ==
    LET bad == [ok |-> FALSE, value |-> PyNone]
        inner == SubSeq(text, 2, Len(text) - 1)
        n == Len(inner)
    IN  IF Len(text) < 2 THEN bad
        ELSE IF text[1] = "[" /\ text[Len(text)] = "]"
        THEN IF n = 0 THEN [ok |-> TRUE, value |-> PyList(<<>>)]
             ELSE IF /\ n % 2 = 1
                     /\ \A i \in 1..n : IF i % 2 = 0 THEN inner[i] = ","
                                        ELSE inner[i] \notin Punct
             THEN [ok |-> TRUE,
                   value |-> PyList([j \in 1..((n + 1) \div 2) |-> inner[2 * j - 1]])]
             ELSE bad
        ELSE IF text[1] = "{" /\ text[Len(text)] = "}"
        THEN IF n = 0 THEN [ok |-> TRUE, value |-> PyDict(<<>>, <<>>)]
             ELSE IF /\ n % 4 = 3
                     /\ \A i \in 1..n :
                          CASE i % 4 = 2 -> inner[i] = ":"
                            [] i % 4 = 0 -> inner[i] = ","
                            [] OTHER -> inner[i] \notin Punct
             THEN [ok |-> TRUE,
                   value |-> PyDict([j \in 1..((n + 1) \div 4) |-> inner[4 * j - 3]],
                                    [j \in 1..((n + 1) \div 4) |-> inner[4 * j - 1]])]
             ELSE bad
        ELSE bad

\* The decimal numerals of i: the canonical one, and the one with a leading
\* zero.
Numerals(i) == {ToString(i), "0" \o ToString(i)}

\* str(k).isdigit() and int(k), for the numerals of 0..MaxParams.
IsDigit(k) == \E i \in 0..MaxParams : k \in Numerals(i)
KeyInt(k) == CHOOSE i \in 0..MaxParams : k \in Numerals(i)

\* sorted(...) of a list of integers: equal elements stay in the list.
RECURSIVE Ascending(_)
Ascending(s) ==
    IF s = <<>> THEN <<>>
    ELSE LET m == CHOOSE i \in DOMAIN s : \A j \in DOMAIN s : s[i] <= s[j]
         IN  <<s[m]>> \o Ascending(SubSeq(s, 1, m - 1) \o SubSeq(s, m + 1, Len(s)))

\* The keys as numbers, in the order the dict holds them.
KeysAsGiven(keys) == [i \in DOMAIN keys |-> KeyInt(keys[i])]

\* sorted([int(k) for k in params.keys() if str(k).isdigit()])
SortedKeys(keys) ==
    LET digits == SelectSeq(keys, IsDigit)
    IN  Ascending([i \in DOMAIN digits |-> KeyInt(digits[i])])

HasKey(p, k) == \E i \in DOMAIN p.keys : p.keys[i] = k
Lookup(p, k) == p.vals[CHOOSE i \in DOMAIN p.keys : p.keys[i] = k]

\* _prepare_params: None for a falsy value; for a dict whose keys are all
\* numerals the tuple of its values in numeric key order, and the dict itself
\* when a key is not a numeral or when params[str(k)] raises KeyError; the
\* tuple of a list; for a string the result for its json.loads, and the
\* string itself when that fails; any other value as it is.
RECURSIVE PrepareParams(_)
PrepareParams(p) ==
    IF Falsy(p) THEN PyNone
    ELSE IF p.type = "dict"
    THEN IF \A i \in DOMAIN p.keys : IsDigit(p.keys[i])
         THEN LET sk == SortedKeys(p.keys) IN
              IF \A j \in DOMAIN sk : HasKey(p, ToString(sk[j]))
              THEN PyTuple([j \in DOMAIN sk |-> Lookup(p, ToString(sk[j]))])
              ELSE p
         ELSE p
    ELSE IF p.type = "list" THEN PyTuple(p.items)
    ELSE IF p.type = "str"
    THEN LET parsed == JsonLoads(p.text) IN
         IF parsed.ok THEN PrepareParams(parsed.value) ELSE p
    ELSE p

\* The argument lists of the calls: every list of up to MaxShort of the
\* values "a" and "b", and for every length up to MaxParams the list "v0",
\* "v1", ... of that length.
ParamValues == {"a", "b"}
ParamLists ==
    UNION {[1..n -> ParamValues] : n \in 0..MaxShort}
    \cup {[i \in 1..n |-> "v" \o ToString(i - 1)] : n \in 0..MaxParams}

\* The shapes an argument list comes in: the list, the dict from "0", "1", ...
\* to the elements (filled first to last, or last to first), and the JSON
\* text of each.
Shapes == {"list", "dict", "dictReversed", "jsonList", "jsonDict", "jsonDictReversed"}

Reversed(s) == [i \in DOMAIN s |-> s[Len(s) + 1 - i]]

IndexDict(L) == PyDict([i \in DOMAIN L |-> ToString(i - 1)], L)
IndexDictReversed(L) ==
    PyDict(Reversed([i \in DOMAIN L |-> ToString(i - 1)]), Reversed(L))

Encode(L, shape) ==
    CASE shape = "list" -> PyList(L)
      [] shape = "dict" -> IndexDict(L)
      [] shape = "dictReversed" -> IndexDictReversed(L)
      [] shape = "jsonList" -> PyStr(JsonDumps(PyList(L)))
      [] shape = "jsonDict" -> PyStr(JsonDumps(IndexDict(L)))
      [] OTHER -> PyStr(JsonDumps(IndexDictReversed(L)))

\* The keys of the mappings handed to run_sql as params: numerals of one and
\* of two digits, one with a leading zero, and a name.
MappingKeys == {"0", "1", "2", "10", "01", "name"}

\* The mappings: up to MaxShort distinct keys in any insertion order, the
\* value "v0" under the first key inserted, "v1" under the second, ...
Mappings ==
    {PyDict(keys, [i \in DOMAIN keys |-> "v" \o ToString(i - 1)]) :
        keys \in {k \in UNION {[1..n -> MappingKeys] : n \in 0..MaxShort} :
                    \A i, j \in DOMAIN k : i # j => k[i] # k[j]}}

\* What run_sql returns: None, or the list of rows of cursor.fetchall().
NoRows == [none |-> TRUE, rows |-> <<>>]
Rows(rows) == [none |-> FALSE, rows |-> rows]

\* The statements handed to run_sql: a SELECT, an UPDATE (no result set), one
\* the server rejects, and the primary-key query of get_table_pk.
SqlKinds == {"select", "update", "bad"}

\* The columns a primary key may be declared on, in any order of declaration.
PkColumnNames == {"order_id", "line_no"}
KeyDecls ==
    {d \in UNION {[1..n -> PkColumnNames] : n \in 0..2} :
        \A i, j \in DOMAIN d : i # j => d[i] # d[j]}

\* The rows of key_column_usage joined to the PRIMARY KEY constraint of the
\* table, as a set: the catalog keeps them in no order.
KeyColumnUsage(decl) ==
    {[column_name |-> decl[i], ordinal_position |-> i] : i \in DOMAIN decl}

\* The rows from the last key column to the first.
RECURSIVE OrderByOrdinalDescending(_)
OrderByOrdinalDescending(rows) ==
    IF rows = {} THEN <<>>
    ELSE LET first == CHOOSE r \in rows :
                        \A q \in rows : q.ordinal_position <= r.ordinal_position
         IN  <<first>> \o OrderByOrdinalDescending(rows \ {first})

\* ORDER BY kcu.ordinal_position
RECURSIVE OrderByOrdinal(_)
OrderByOrdinal(rows) ==
    IF rows = {} THEN <<>>
    ELSE LET first == CHOOSE r \in rows :
                        \A q \in rows : r.ordinal_position <= q.ordinal_position
         IN  <<first>> \o OrderByOrdinal(rows \ {first})

\* get_table_pk after run_sql: result[0]['column_name'], or None.
FirstPkColumn(returned) ==
    IF ~returned.none /\ Len(returned.rows) > 0
    THEN returned.rows[1].column_name ELSE NoCol

\* What the callers of get_table_pk build from its answer: add_row the
\* RETURNING column of its INSERT (`if pk:' appends RETURNING "<pk>"),
\* remove_row and safe_remove the column of the inner SELECT of the statement
\* for an edge.
PkUse(pk) ==
    [caller |-> "get_table_pk", column |-> pk,
     returning |-> InsertStmt(<<>>, pk).returning,
     subquery |-> SubqueryColumn(pk, RefCol)]

\* The body the /api/run_sql handler answers with.
SqlBody(ok, data, count, error) ==
    [ok |-> ok, data |-> data, count |-> count, error |-> error]

\* `len(result) if result else 0'
CountOf(returned) == IF returned.none THEN 0 ELSE Len(returned.rows)

NoCall == [caller |-> "none", sql |-> "none", logical |-> <<>>, shape |-> "none"]
NoSqlConn == [state |-> "none", txn |-> "none"]
NoReply == [caller |-> "none"]

SqlIdle ==
    /\ spc = "idle"
    /\ scall = NoCall
    /\ sargs = PyNone
    /\ sconn = NoSqlConn
    /\ sqlParams = PyNone
    /\ sresult = NoRows
    /\ sreply = NoReply
    /\ sfault = {}

\* A caller invokes db.run_sql(sql, params) with an argument list in one of
\* its shapes, or get_table_pk("orders"), or db.run_sql(sql, params) with a
\* mapping, or posts sql and a params text to /api/run_sql.
SqlCall ==
    /\ spc = "idle"
    /\ \/ \E k \in SqlKinds, L \in ParamLists, sh \in Shapes :
            /\ scall' = [caller |-> "direct", sql |-> k, logical |-> L, shape |-> sh]
            /\ sargs' = Encode(L, sh)
            /\ spc' = "connect"
       \/ /\ scall' = [caller |-> "get_table_pk", sql |-> "pk", logical |-> <<"orders">>,
                       shape |-> "tuple"]
          /\ sargs' = PyTuple(<<"orders">>)
          /\ spc' = "connect"
       \/ \E m \in Mappings :
            /\ scall' = [caller |-> "mapping", sql |-> "select", logical |-> m.vals,
                         shape |-> "dict"]
            /\ sargs' = m
            /\ spc' = "connect"
       \/ \E k \in SqlKinds, L \in ParamLists, sh \in {"jsonList", "jsonDict", "invalid"} :
            /\ sh = "invalid" => L = <<>>
            /\ scall' = [caller |-> "api", sql |-> k, logical |-> L, shape |-> sh]
            /\ sargs' = IF sh = "invalid" THEN PyStr(<<"[">>) ELSE Encode(L, sh)
            /\ spc' = "parse"
    /\ UNCHANGED <<sconn, sqlParams, sresult, sreply, sfault, pkDecl>>
    /\ UNCHANGED notSql

\* The handler of /api/run_sql: params_dict = {} unless the params text is
\* non-blank, in which case it is json.loads(params), a JSONDecodeError being
\* answered with ok = False.
ApiParse ==
    /\ spc = "parse"
    /\ LET parsed == JsonLoads(sargs.text) IN
       IF sargs.text = <<>>
       THEN /\ sargs' = PyDict(<<>>, <<>>)
            /\ spc' = "connect"
            /\ UNCHANGED <<sreply, sfault>>
       ELSE IF parsed.ok
       THEN /\ sargs' = parsed.value
            /\ spc' = "connect"
            /\ UNCHANGED <<sreply, sfault>>
       ELSE /\ sreply' = SqlBody(FALSE, NoRows, 0, "JSON error")
            /\ sfault' = sfault \cup {"json"}
            /\ spc' = "done"
            /\ UNCHANGED sargs
    /\ UNCHANGED <<scall, sconn, sqlParams, sresult, pkDecl>>
    /\ UNCHANGED notSql

\* conn = self.get_db_connection(); `if not conn: return None'.
SqlConnect ==
    /\ spc = "connect"
    /\ \E up \in BOOLEAN :
        IF up
        THEN /\ sconn' = [state |-> "open", txn |-> "none"]
             /\ spc' = "prepare"
             /\ UNCHANGED sfault
        ELSE /\ sfault' = sfault \cup {"connect"}
             /\ spc' = "reply"
             /\ UNCHANGED sconn
    /\ UNCHANGED <<scall, sargs, sqlParams, sresult, sreply, pkDecl>>
    /\ UNCHANGED notSql

\* sql_params = self._prepare_params(params)
SqlPrepare ==
    /\ spc = "prepare"
    /\ sqlParams' = PrepareParams(sargs)
    /\ spc' = "execute"
    /\ UNCHANGED <<scall, sargs, sconn, sresult, sreply, sfault, pkDecl>>
    /\ UNCHANGED notSql

\* What the server answers to the statement.
SqlRows ==
    IF scall.sql = "pk" THEN Rows(OrderByOrdinal(KeyColumnUsage(pkDecl)))
    ELSE IF scall.sql = "select" THEN Rows(<<[column_name |-> "id", ordinal_position |-> 1]>>)
    ELSE NoRows

\* cursor.execute; fetchall when the statement has a result set; commit and
\* return the rows; on an exception rollback and return None; close in the
\* finally clause either way.
SqlExecute ==
    /\ spc = "execute"
    /\ \E driverOk \in BOOLEAN :
        IF driverOk /\ scall.sql # "bad"
        THEN /\ sresult' = SqlRows
             /\ sconn' = [state |-> "closed", txn |-> "committed"]
             /\ UNCHANGED sfault
        ELSE /\ sresult' = NoRows
             /\ sconn' = [state |-> "closed", txn |-> "rolled back"]
             /\ sfault' = sfault \cup {"statement"}
    /\ spc' = "reply"
    /\ UNCHANGED <<scall, sargs, sqlParams, sreply, pkDecl>>
    /\ UNCHANGED notSql

\* run_sql has returned to its caller: get_table_pk takes the first row's
\* column_name, which add_row, remove_row and safe_remove build their
\* statement from; the handler answers ok = True with the data and its count.
SqlReply ==
    /\ spc = "reply"
    /\ sreply' = CASE scall.caller = "api" ->
                        SqlBody(TRUE, sresult, CountOf(sresult), "")
                   [] scall.caller = "get_table_pk" ->
                        PkUse(FirstPkColumn(sresult))
                   [] OTHER -> [caller |-> "direct", returned |-> sresult]
    /\ spc' = "done"
    /\ UNCHANGED <<scall, sargs, sconn, sqlParams, sresult, sfault, pkDecl>>
    /\ UNCHANGED notSql

\* The call is over.
SqlReturn ==
    /\ spc = "done"
    /\ spc' = "idle"
    /\ scall' = NoCall
    /\ sargs' = PyNone
    /\ sconn' = NoSqlConn
    /\ sqlParams' = PyNone
    /\ sresult' = NoRows
    /\ sreply' = NoReply
    /\ sfault' = {}
    /\ UNCHANGED pkDecl
    /\ UNCHANGED notSql

\* ---------------------------- save_tables_to_xlsx and save_tables_to_json

\* What a bulk export returns: (str(filepath), filename) or (None, message).
ExportFile == [file |-> TRUE, msg |-> "filename"]
ExportFailure(msg) == [file |-> FALSE, msg |-> msg]
NoExportResult == ExportFailure("")

NoExport == [format |-> "none", names |-> <<>>]

\* The message of the exception openpyxl raises when a workbook without a
\* sheet is saved.
NoSheetVisible == "At least one sheet must be visible"

ExportIdle ==
    /\ xpc = "idle"
    /\ xcall = NoExport
    /\ xvalid = <<>>
    /\ xdir = FALSE
    /\ xsheets = {}
    /\ xfile = FALSE
    /\ xresult = NoExportResult
    /\ xfault = {}

\* A caller invokes save_tables_to_xlsx(table_names) or
\* save_tables_to_json(table_names).
ExportCall ==
    /\ xpc = "idle"
    /\ \E f \in {"xlsx", "json"}, r \in PackRequests :
        xcall' = [format |-> f, names |-> r]
    /\ xpc' = "filter"
    /\ UNCHANGED <<xvalid, xdir, xsheets, xfile, xresult, xfault>>
    /\ UNCHANGED notExport

\* `if not table_names', the table_present filter, `if not valid_tables'.
\* table_present answers False for a table whose catalog query failed.
ExportFilter ==
    /\ xpc = "filter"
    /\ \E lost \in SUBSET (Range(xcall.names) \cap existing) :
        LET found == SelectSeq(xcall.names, LAMBDA t : t \in existing \ lost) IN
        /\ xfault' = IF lost = {} THEN xfault ELSE xfault \cup {"catalog"}
        /\ IF xcall.names = <<>>
           THEN /\ xresult' = ExportFailure("No tables selected")
                /\ xpc' = "done"
                /\ UNCHANGED xvalid
           ELSE IF found = <<>>
           THEN /\ xresult' = ExportFailure("No valid tables found")
                /\ xpc' = "done"
                /\ UNCHANGED xvalid
           ELSE /\ xvalid' = found
                /\ xpc' = "mkdir"
                /\ UNCHANGED xresult
    /\ UNCHANGED <<xcall, xdir, xsheets, xfile>>
    /\ UNCHANGED notExport

\* save_dir = self.create_folder_with_time(self.folders['exports']); a
\* failing mkdir leaves by the except branch.
ExportMkdir ==
    /\ xpc = "mkdir"
    /\ \E made \in BOOLEAN :
        IF made
        THEN /\ xdir' = TRUE
             /\ xpc' = "write"
             /\ UNCHANGED <<xresult, xfault>>
        ELSE /\ xresult' = ExportFailure("mkdir error")
             /\ xfault' = xfault \cup {"mkdir"}
             /\ xpc' = "done"
             /\ UNCHANGED xdir
    /\ UNCHANGED <<xcall, xvalid, xsheets, xfile>>
    /\ UNCHANGED notExport

\* The tables of valid_tables that get a sheet (a key): those whose
\* get_table_rows is truthy, that is, was read and has a row.
WithData(tables, unread) ==
    {t \in Range(tables) : t \notin unread /\ rowsOf[t] > 0}

\* The loop over valid_tables and the file.  save_tables_to_xlsx writes one
\* sheet per table `if data', and the workbook is saved when the `with' block
\* is left: a workbook without a sheet raises.  save_tables_to_json dumps the
\* dict, whatever it holds.  Any exception returns (None, str(e)).
ExportWrite ==
    /\ xpc = "write"
    /\ \E unread \in SUBSET Range(xvalid), wrote \in BOOLEAN :
        LET sheets == WithData(xvalid, unread) IN
        /\ xfault' = xfault \cup (IF unread = {} THEN {} ELSE {"read"})
                            \cup (IF wrote THEN {} ELSE {"write"})
        /\ IF ~wrote
           THEN /\ xresult' = ExportFailure("write error")
                /\ UNCHANGED <<xsheets, xfile>>
           ELSE IF xcall.format = "xlsx" /\ sheets = {}
           THEN /\ xresult' = ExportFailure(NoSheetVisible)
                /\ UNCHANGED <<xsheets, xfile>>
           ELSE /\ xsheets' = sheets
                /\ xfile' = TRUE
                /\ xresult' = ExportFile
    /\ xpc' = "done"
    /\ UNCHANGED <<xcall, xvalid, xdir>>
    /\ UNCHANGED notExport

\* The call has returned.
ExportReturn ==
    /\ xpc = "done"
    /\ xpc' = "idle"
    /\ xcall' = NoExport
    /\ xvalid' = <<>>
    /\ xdir' = FALSE
    /\ xsheets' = {}
    /\ xfile' = FALSE
    /\ xresult' = NoExportResult
    /\ xfault' = {}
    /\ UNCHANGED notExport

\* ------------------------------------------- timestamp-named directories

\* The two requests in flight.
Requests == {1, 2}

\* The file-producing operations: the bulk exports, the database backup, and
\* pack_tables (its pack_info file).
FileOps == {"save_tables_to_xlsx", "save_tables_to_json", "create_database_backup",
            "pack_tables"}

\* self.folders: the base folder of an operation.
BaseFolder(o) ==
    CASE o = "create_database_backup" -> "backups"
      [] o = "pack_tables" -> "archives"
      [] OTHER -> "exports"

\* strftime("%Y%m%d_%H%M%S") of a clock reading: the date and the whole
\* seconds, the fraction of the second dropped.
TimeStr(t) == <<"day", t \div 2>>

\* strftime('%H%M%S'): the whole seconds of the day.
ShortTimeStr(t) == t \div 2

\* The file name an operation builds from the clock: export_<time>.xlsx,
\* export_<time>.json, backup_<db>_<date_time>.backup, pack_info_<time>.json.
FileName(o, t) ==
    IF o = "create_database_backup" THEN <<o, TimeStr(t)>> ELSE <<o, ShortTimeStr(t)>>

NoPath == <<>>
NoFileOp == [name |-> "none", pc |-> "idle", dir |-> NoPath, path |-> NoPath]

NamesIdle ==
    /\ now = 0
    /\ fop = [r \in Requests |-> NoFileOp]

\* Half a second passes.
Tick ==
    /\ now < MaxClock
    /\ now' = now + 1
    /\ UNCHANGED fop
    /\ UNCHANGED notNames

\* The handler of a request calls its operation.  The handlers are coroutines
\* of one event loop and the operations do not await: one operation runs at
\* a time, while the answer of an earlier one may still be on its way.
FileCall(r) ==
    /\ fop[r].pc = "idle"
    /\ \A q \in Requests : fop[q].pc \in {"idle", "written"}
    /\ \E o \in FileOps : fop' = [fop EXCEPT ![r] = [NoFileOp EXCEPT !.name = o, !.pc = "dir"]]
    /\ UNCHANGED now
    /\ UNCHANGED notNames

\* create_folder_with_time: base_folder / time_str, mkdir(exist_ok=True).
FileMkdir(r) ==
    /\ fop[r].pc = "dir"
    /\ fop' = [fop EXCEPT ![r].dir = <<BaseFolder(fop[r].name), TimeStr(now)>>,
                          ![r].pc = "file"]
    /\ UNCHANGED now
    /\ UNCHANGED notNames

\* The file name from a second reading of the clock, and the file written
\* under it in the directory; the operation returns the path.
FileWrite(r) ==
    /\ fop[r].pc = "file"
    /\ fop' = [fop EXCEPT ![r].path = Append(fop[r].dir, FileName(fop[r].name, now)),
                          ![r].pc = "written"]
    /\ UNCHANGED now
    /\ UNCHANGED notNames

\* The answer of the request has been delivered.
FileDone(r) ==
    /\ fop[r].pc = "written"
    /\ fop' = [fop EXCEPT ![r] = NoFileOp]
    /\ UNCHANGED now
    /\ UNCHANGED notNames

\* ---------------------------------------------------------- wipe_database

\* What wipe_database returns: (ok, message); count and table stand for the
\* number and the name the message carries (-1 and 0: none).
WipeResult(ok, msg, count, table) ==
    [ok |-> ok, msg |-> msg, count |-> count, table |-> table]
NoWipeResult == WipeResult(FALSE, "", -1, 0)

NoWipeConn == [state |-> "none", txn |-> "none"]

\* The body the /api/wipe_all handler answers with: ok, msg and dropped, or
\* ok and error.  The messages of wipe_database hold no colon, so dropped is
\* 'unknown'.
WipeBody(returned) ==
    IF returned.ok
    THEN [ok |-> TRUE, msg |-> returned.msg, dropped |-> "unknown", error |-> ""]
    ELSE [ok |-> FALSE, msg |-> "", dropped |-> "", error |-> returned.msg]
NoWipeBody == [ok |-> FALSE, msg |-> "", dropped |-> "", error |-> "none yet"]

\* ORDER BY tablename
RECURSIVE OrderByName(_)
OrderByName(S) ==
    IF S = {} THEN <<>>
    ELSE LET first == CHOOSE t \in S : \A u \in S : t <= u
         IN  <<first>> \o OrderByName(S \ {first})

WipeIdle ==
    /\ wpc = "idle"
    /\ wschema0 = wschema
    /\ wseen = wschema
    /\ wtables = <<>>
    /\ widx = 0
    /\ removed = 0
    /\ wconn = NoWipeConn
    /\ wlog = <<>>
    /\ wresult = NoWipeResult
    /\ wreply = NoWipeBody
    /\ wfault = {}

\* The wipe part at rest in the other specifications.
NoWipe ==
    /\ wschema = {}
    /\ WipeIdle

\* A caller invokes wipe_database().
WipeCall ==
    /\ wpc = "idle"
    /\ wpc' = "connect"
    /\ wschema0' = wschema
    /\ UNCHANGED <<wschema, wseen, wtables, widx, removed, wconn, wlog, wresult,
                   wreply, wfault>>
    /\ UNCHANGED notWipe

\* conn = self.get_db_connection(dict_mode=False); `if not conn: return
\* False, "DB connection error"'.
WipeConnect ==
    /\ wpc = "connect"
    /\ \E up \in BOOLEAN :
        IF up
        THEN /\ wconn' = [state |-> "open", txn |-> "none"]
             /\ wseen' = wschema
             /\ wpc' = "list"
             /\ UNCHANGED <<wresult, wfault>>
        ELSE /\ wresult' = WipeResult(FALSE, "DB connection error", -1, 0)
             /\ wfault' = wfault \cup {"connect"}
             /\ wpc' = "done"
             /\ UNCHANGED <<wconn, wseen>>
    /\ UNCHANGED <<wschema, wschema0, wtables, widx, removed, wlog, wreply>>
    /\ UNCHANGED notWipe

\* The SELECT on pg_tables and `if not tables: conn.close(); return True, "No
\* tables found"'.  When the query fails the outer except returns "Error",
\* with the connection left as it is.
WipeList ==
    /\ wpc = "list"
    /\ \E driverOk \in BOOLEAN :
        IF ~driverOk
        THEN /\ wresult' = WipeResult(FALSE, "Error", -1, 0)
             /\ wfault' = wfault \cup {"catalog"}
             /\ wconn' = [wconn EXCEPT !.txn = "failed"]
             /\ wpc' = "done"
             /\ UNCHANGED <<wtables, widx>>
        ELSE IF wseen = {}
        THEN /\ wresult' = WipeResult(TRUE, "No tables found", -1, 0)
             /\ wconn' = [state |-> "closed", txn |-> "none"]
             /\ wpc' = "done"
             /\ UNCHANGED <<wtables, widx, wfault>>
        ELSE /\ wtables' = OrderByName(wseen)
             /\ widx' = 1
             /\ wconn' = [wconn EXCEPT !.txn = "open"]
             /\ wpc' = "drop"
             /\ UNCHANGED <<wresult, wfault>>
    /\ UNCHANGED <<wschema, wschema0, wseen, removed, wlog, wreply>>
    /\ UNCHANGED notWipe

\* One pass of `for name in table_names': DROP TABLE IF EXISTS "<name>"
\* CASCADE on the cursor of the call and removed += 1; when the statement
\* fails, conn.rollback(), conn.close() and return False, "Failed to drop
\* <name>".
WipeDrop ==
    /\ wpc = "drop"
    /\ widx <= Len(wtables)
    /\ \E driverOk \in BOOLEAN :
        LET name == wtables[widx] IN
        IF driverOk
        THEN /\ wseen' = wseen \ {name}
             /\ wschema' = Visible(wschema, wseen \ {name})
             /\ wlog' = Append(wlog, <<"drop", name>>)
             /\ removed' = removed + 1
             /\ widx' = widx + 1
             /\ UNCHANGED <<wpc, wconn, wresult, wfault>>
        ELSE /\ wlog' = wlog \o << <<"drop", name>>, <<"rollback", 0>> >>
             /\ wseen' = wschema
             /\ wconn' = [state |-> "closed", txn |-> "rolled back"]
             /\ wresult' = WipeResult(FALSE, "Failed to drop", -1, name)
             /\ wfault' = wfault \cup {"drop"}
             /\ wpc' = "done"
             /\ UNCHANGED <<wschema, removed, widx>>
    /\ UNCHANGED <<wschema0, wtables, wreply>>
    /\ UNCHANGED notWipe

\* After the loop: conn.commit(), conn.close(), return True, "Dropped
\* <removed> tables".  When the commit fails nothing is committed and the
\* outer except returns "Error", with the connection left as it is.
WipeCommit ==
    /\ wpc = "drop"
    /\ widx > Len(wtables)
    /\ \E driverOk \in BOOLEAN :
        IF driverOk
        THEN /\ wschema' = wseen
             /\ wlog' = Append(wlog, <<"commit", 0>>)
             /\ wconn' = [state |-> "closed", txn |-> "committed"]
             /\ wresult' = WipeResult(TRUE, "Dropped", removed, 0)
             /\ UNCHANGED <<wseen, wfault>>
        ELSE /\ wseen' = wschema
             /\ wconn' = [wconn EXCEPT !.txn = "failed"]
             /\ wresult' = WipeResult(FALSE, "Error", -1, 0)
             /\ wfault' = wfault \cup {"commit"}
             /\ UNCHANGED <<wschema, wlog>>
    /\ wpc' = "done"
    /\ UNCHANGED <<wschema0, wtables, widx, removed, wreply>>
    /\ UNCHANGED notWipe

\* The /api/wipe_all handler answers once db.wipe_database has returned.
WipeReply ==
    /\ wpc = "done"
    /\ wreply' = WipeBody(wresult)
    /\ wpc' = "replied"
    /\ UNCHANGED <<wschema, wschema0, wseen, wtables, widx, removed, wconn, wlog,
                   wresult, wfault>>
    /\ UNCHANGED notWipe

\* The request is over; tables may be created before the next one.
WipeReturn ==
    /\ wpc = "replied"
    /\ wpc' = "idle"
    /\ \E created \in SUBSET PackNames :
        /\ wschema' = wschema \cup created
        /\ wschema0' = wschema \cup created
        /\ wseen' = wschema \cup created
    /\ wtables' = <<>>
    /\ widx' = 0
    /\ removed' = 0
    /\ wconn' = NoWipeConn
    /\ wlog' = <<>>
    /\ wresult' = NoWipeResult
    /\ wreply' = NoWipeBody
    /\ wfault' = {}
    /\ UNCHANGED notWipe

\* ------------------------------------------------------ save_query_to_xlsx

\* What save_query_to_xlsx returns: (filepath, filename) or (None, message);
\* file tells whether the first component is a path.
StageResult(file, msg) == [file |-> file, msg |-> msg]
NoStageResult == StageResult(FALSE, "none yet")

NoStageConn == [state |-> "none", txn |-> "none"]

\* A table of `rows' rows, and no table.
Staged(rows) == [exists |-> TRUE, rows |-> rows]
NoTable == [exists |-> FALSE, rows |-> 0]

\* The callers: save_query_to_csv hands its rows on under the name
\* "query_result"; a direct call takes the default name "result".
StageCallers ==
    { [caller |-> "save_query_to_csv", name |-> "query_result"],
      [caller |-> "direct", name |-> "result"] }

\* A table made by CREATE TABLE outlives its session.
TemporaryNot == FALSE

\* CREATE TEMPORARY TABLE: the staging table belongs to the session.
Temporary == TRUE

\* What is left of the staging table once its session has ended.
AfterClose(table) == IF Temporary THEN NoTable ELSE table

StageIdle ==
    /\ qpc = "idle"
    /\ qcall = [caller |-> "none", name |-> "", rows |-> 0]
    /\ qidx = 0
    /\ qconn = NoStageConn
    /\ qtable = NoTable
    /\ qseen = NoTable
    /\ qdir = FALSE
    /\ qfile = FALSE
    /\ qlog = <<>>
    /\ qresult = NoStageResult
    /\ qfault = {}

\* `except Exception as e: conn.rollback(); return None, f"Error: ..."' and
\* `finally: conn.close()', after the step `stage' raised.  When the rollback
\* raises as well, the finally clause still closes and the outer except
\* returns the text of that exception; the server discards the transaction
\* of a session that ends.
StageFail(stage) ==
    /\ \E rollbackOk \in BOOLEAN :
        IF rollbackOk
        THEN /\ qlog' = qlog \o << <<stage, "raised">>, <<"rollback", "ok">>,
                                   <<"close", "ok">> >>
             /\ qconn' = [state |-> "closed", txn |-> "rolled back"]
             /\ qresult' = StageResult(FALSE, "Error")
             /\ qfault' = qfault \cup {stage}
        ELSE /\ qlog' = qlog \o << <<stage, "raised">>, <<"rollback", "raised">>,
                                   <<"close", "ok">> >>
             /\ qconn' = [state |-> "closed", txn |-> "discarded"]
             /\ qresult' = StageResult(FALSE, "str(e)")
             /\ qfault' = qfault \cup {stage, "rollback"}
    /\ qtable' = AfterClose(qtable)
    /\ qseen' = AfterClose(qtable)
    /\ qpc' = "done"

\* A caller invokes save_query_to_xlsx(result_data, query_name); `if not
\* result_data: return None, "No data to save"'.
StageCall ==
    /\ qpc = "idle"
    /\ \E c \in StageCallers, n \in 0..MaxShort :
        /\ qcall' = [caller |-> c.caller, name |-> c.name, rows |-> n]
        /\ IF n = 0
           THEN /\ qresult' = StageResult(FALSE, "No data to save")
                /\ qpc' = "done"
           ELSE /\ qpc' = "connect"
                /\ UNCHANGED qresult
    /\ UNCHANGED <<qidx, qconn, qtable, qseen, qdir, qfile, qlog, qfault>>
    /\ UNCHANGED notStage

\* conn = self.get_db_connection(dict_mode=False); `if not conn: return
\* None, "Connection error"'.
StageConnect ==
    /\ qpc = "connect"
    /\ \E up \in BOOLEAN :
        IF up
        THEN /\ qconn' = [state |-> "open", txn |-> "none"]
             /\ qpc' = "create"
             /\ UNCHANGED <<qresult, qfault>>
        ELSE /\ qresult' = StageResult(FALSE, "Connection error")
             /\ qfault' = qfault \cup {"connect"}
             /\ qpc' = "done"
             /\ UNCHANGED qconn
    /\ UNCHANGED <<qcall, qidx, qtable, qseen, qdir, qfile, qlog>>
    /\ UNCHANGED notStage

\* cursor.execute(create_sql): CREATE TEMPORARY TABLE temp_export_<time>,
\* inside the transaction the statement opens.
StageCreate ==
    /\ qpc = "create"
    /\ \E driverOk \in BOOLEAN :
        IF driverOk
        THEN /\ qseen' = Staged(0)
             /\ qtable' = Visible(qtable, Staged(0))
             /\ qconn' = [qconn EXCEPT !.txn = "open"]
             /\ qlog' = Append(qlog, <<"create", "ok">>)
             /\ qidx' = 1
             /\ qpc' = "insert"
             /\ UNCHANGED <<qresult, qfault>>
        ELSE /\ StageFail("create")
             /\ UNCHANGED qidx
    /\ UNCHANGED <<qcall, qdir, qfile>>
    /\ UNCHANGED notStage

\* One pass of `for row in result_data': cursor.execute(insert_sql, values).
StageInsert ==
    /\ qpc = "insert"
    /\ qidx <= qcall.rows
    /\ \E driverOk \in BOOLEAN :
        IF driverOk
        THEN /\ qseen' = Staged(qseen.rows + 1)
             /\ qtable' = Visible(qtable, Staged(qseen.rows + 1))
             /\ qlog' = Append(qlog, <<"insert", "ok">>)
             /\ qidx' = qidx + 1
             /\ UNCHANGED <<qpc, qconn, qresult, qfault>>
        ELSE /\ StageFail("insert")
             /\ UNCHANGED qidx
    /\ UNCHANGED <<qcall, qdir, qfile>>
    /\ UNCHANGED notStage

\* conn.commit() after the loop: the table and its rows are committed.
StageCommit ==
    /\ qpc = "insert"
    /\ qidx > qcall.rows
    /\ \E driverOk \in BOOLEAN :
        IF driverOk
        THEN /\ qtable' = qseen
             /\ qconn' = [qconn EXCEPT !.txn = "committed"]
             /\ qlog' = Append(qlog, <<"commit", "ok">>)
             /\ qpc' = "mkdir"
             /\ UNCHANGED <<qseen, qresult, qfault>>
        ELSE StageFail("commit")
    /\ UNCHANGED <<qcall, qidx, qdir, qfile>>
    /\ UNCHANGED notStage

\* save_dir = self.create_folder_with_time(self.folders['exports']) and the
\* file name.
StageMkdir ==
    /\ qpc = "mkdir"
    /\ \E osOk \in BOOLEAN :
        IF osOk
        THEN /\ qdir' = TRUE
             /\ qpc' = "select"
             /\ UNCHANGED <<qconn, qtable, qseen, qlog, qresult, qfault>>
        ELSE /\ StageFail("mkdir")
             /\ UNCHANGED qdir
    /\ UNCHANGED <<qcall, qidx, qfile>>
    /\ UNCHANGED notStage

\* cursor.execute('SELECT * FROM <temp_table>') and fetchall(): a new
\* transaction opens.
StageSelect ==
    /\ qpc = "select"
    /\ \E driverOk \in BOOLEAN :
        IF driverOk
        THEN /\ qconn' = [qconn EXCEPT !.txn = "open"]
             /\ qlog' = Append(qlog, <<"select", "ok">>)
             /\ qpc' = "write"
             /\ UNCHANGED <<qtable, qseen, qresult, qfault>>
        ELSE StageFail("select")
    /\ UNCHANGED <<qcall, qidx, qdir, qfile>>
    /\ UNCHANGED notStage

\* df.to_excel(str(filepath), index=False)
StageWrite ==
    /\ qpc = "write"
    /\ \E osOk \in BOOLEAN :
        IF osOk
        THEN /\ qfile' = TRUE
             /\ qpc' = "drop"
             /\ UNCHANGED <<qconn, qtable, qseen, qlog, qresult, qfault>>
        ELSE /\ StageFail("write")
             /\ UNCHANGED qfile
    /\ UNCHANGED <<qcall, qidx, qdir>>
    /\ UNCHANGED notStage

\* cursor.execute('DROP TABLE IF EXISTS <temp_table>')
StageDrop ==
    /\ qpc = "drop"
    /\ \E driverOk \in BOOLEAN :
        IF driverOk
        THEN /\ qseen' = NoTable
             /\ qtable' = Visible(qtable, NoTable)
             /\ qlog' = Append(qlog, <<"drop", "ok">>)
             /\ qpc' = "commit"
             /\ UNCHANGED <<qconn, qresult, qfault>>
        ELSE StageFail("drop")
    /\ UNCHANGED <<qcall, qidx, qdir, qfile>>
    /\ UNCHANGED notStage

\* The second conn.commit(), `return str(filepath), filename', and the
\* finally clause closing the connection.
StageFinish ==
    /\ qpc = "commit"
    /\ \E driverOk \in BOOLEAN :
        IF driverOk
        THEN /\ qtable' = AfterClose(qseen)
             /\ qseen' = AfterClose(qseen)
             /\ qconn' = [state |-> "closed", txn |-> "committed"]
             /\ qlog' = qlog \o << <<"commit", "ok">>, <<"close", "ok">> >>
             /\ qresult' = StageResult(TRUE, qcall.name)
             /\ qpc' = "done"
             /\ UNCHANGED qfault
        ELSE StageFail("commit 2")
    /\ UNCHANGED <<qcall, qidx, qdir, qfile>>
    /\ UNCHANGED notStage

\* The caller has the result; the next call starts with a new connection.
StageReturn ==
    /\ qpc = "done"
    /\ qpc' = "idle"
    /\ qcall' = [caller |-> "none", name |-> "", rows |-> 0]
    /\ qidx' = 0
    /\ qconn' = NoStageConn
    /\ qtable' = NoTable
    /\ qseen' = NoTable
    /\ qdir' = FALSE
    /\ qfile' = FALSE
    /\ qlog' = <<>>
    /\ qresult' = NoStageResult
    /\ qfault' = {}
    /\ UNCHANGED notStage

\* ----------------------------------------------------- restore_from_backup

\* The one warning of pg_restore that is not held against it (the parameter
\* name is quoted in the output), and the other lines it may write.
BenignWarning == "unrecognized configuration parameter transaction_timeout"
StdoutTexts == {<<>>, <<"restoring">>}
StderrTexts == {<<>>, <<BenignWarning>>, <<"error">>, <<"error", BenignWarning>>}

\* `... in output': the text occurs among the lines.
Contains(output, text) == \E i \in DOMAIN output : output[i] = text

\* What restore_from_backup returns: (ok, message), the message of a
\* pg_restore failure carrying stderr and stdout.
RestoreResult(ok, msg, stderr, stdout) ==
    [ok |-> ok, msg |-> msg, stderr |-> stderr, stdout |-> stdout]
NoRestoreResult == RestoreResult(FALSE, "", <<>>, <<>>)

\* A verdict that looks at the exit code only.
RestoreOutcomeByExitCode(exit, stdout, stderr) ==
    IF exit = 0 THEN RestoreResult(TRUE, "Restore successful", <<>>, <<>>)
    ELSE RestoreResult(FALSE, "pg_restore error", stderr, stdout)

\* output = result.stdout + result.stderr; the warning test; the exit code.
RestoreOutcome(exit, stdout, stderr) ==
    IF Contains(stdout \o stderr, BenignWarning)
    THEN RestoreResult(TRUE, "Restored (some warnings ignored)", <<>>, <<>>)
    ELSE IF exit = 0 THEN RestoreResult(TRUE, "Restore successful", <<>>, <<>>)
    ELSE RestoreResult(FALSE, "pg_restore error", stderr, stdout)

\* A restore that goes to pg_restore without dropping anything.
RestoreStepAfterNoDrop(step) ==
    IF step = "check" THEN "restore"
    ELSE IF step = "connect" THEN "drop"
    ELSE IF step = "drop" THEN "restore"
    ELSE IF step = "restore" THEN "verdict" ELSE "done"

\* The order of the statements of restore_from_backup: the existence test,
\* the connection and the DROPs of the drop phase, pg_restore, the verdict.
RestoreStepAfter(step) ==
    IF step = "check" THEN "connect"
    ELSE IF step = "connect" THEN "drop"
    ELSE IF step = "drop" THEN "restore"
    ELSE IF step = "restore" THEN "verdict" ELSE "done"

RestoreIdle ==
    /\ rpc = "idle"
    /\ schema0 = schema
    /\ rpending = {}
    /\ rdropped = {}
    /\ rconn = "none"
    /\ rlog = <<>>
    /\ rexit = 0
    /\ rstdout = <<>>
    /\ rstderr = <<>>
    /\ rresult = NoRestoreResult
    /\ rfault = {}

\* The restore part at rest in the other specifications.
NoRestore ==
    /\ schema = {}
    /\ backup = [exists |-> TRUE, tables |-> {}]
    /\ RestoreIdle

\* A caller invokes restore_from_backup(backup_file) with a file that is
\* there or not.
RestoreCall ==
    /\ rpc = "idle"
    /\ \E there \in BOOLEAN : backup' = [backup EXCEPT !.exists = there]
    /\ rpc' = "check"
    /\ schema0' = schema
    /\ UNCHANGED <<schema, rpending, rdropped, rconn, rlog, rexit, rstdout, rstderr,
                   rresult, rfault>>
    /\ UNCHANGED notRestore

\* A test that takes every path for a file.
FileMissingNever(file) == FALSE

\* `not os.path.exists(backup_file)'
FileMissing(file) == ~file.exists

\* `if not os.path.exists(backup_file): return False, "File not found"'
RestoreCheck ==
    /\ rpc = "check"
    /\ IF FileMissing(backup)
       THEN /\ rresult' = RestoreResult(FALSE, "File not found", <<>>, <<>>)
            /\ rpc' = "done"
       ELSE /\ rpc' = RestoreStepAfter("check")
            /\ UNCHANGED rresult
    /\ UNCHANGED <<schema, schema0, backup, rpending, rdropped, rconn, rlog, rexit,
                   rstdout, rstderr, rfault>>
    /\ UNCHANGED notRestore

\* The drop phase opens its connection and reads pg_tables; when either
\* fails the except clause prints and the restore goes on.
RestoreConnect ==
    /\ rpc = "connect"
    /\ \E up \in BOOLEAN :
        IF up
        THEN /\ rconn' = "open"
             /\ rpending' = schema
             /\ rpc' = RestoreStepAfter("connect")
             /\ UNCHANGED rfault
        ELSE /\ rfault' = rfault \cup {"connect"}
             /\ rpc' = RestoreStepAfter("drop")
             /\ UNCHANGED <<rconn, rpending>>
    /\ UNCHANGED <<schema, schema0, backup, rdropped, rlog, rexit, rstdout, rstderr,
                   rresult>>
    /\ UNCHANGED notRestore

\* `for table in tables: cursor.execute(DROP TABLE IF EXISTS ... CASCADE)',
\* in the order pg_tables listed them, then conn.commit() and conn.close().
\* A failing DROP leaves by the except clause: nothing is committed and the
\* connection is left as it is.
RestoreDrop ==
    /\ rpc = "drop"
    /\ IF rpending = {}
       THEN /\ schema' = schema \ rdropped
            /\ rlog' = Append(rlog, <<"commit", 0>>)
            /\ rconn' = "closed"
            /\ rpc' = RestoreStepAfter("drop")
            /\ UNCHANGED <<rpending, rdropped, rfault>>
       ELSE \E t \in rpending, driverOk \in BOOLEAN :
             IF driverOk
             THEN /\ rdropped' = rdropped \cup {t}
                  /\ rpending' = rpending \ {t}
                  /\ rlog' = Append(rlog, <<"drop", t>>)
                  /\ UNCHANGED <<schema, rconn, rpc, rfault>>
             ELSE /\ rfault' = rfault \cup {"drop"}
                  /\ rpc' = RestoreStepAfter("drop")
                  /\ UNCHANGED <<schema, rconn, rpending, rdropped, rlog>>
    /\ UNCHANGED <<schema0, backup, rexit, rstdout, rstderr, rresult>>
    /\ UNCHANGED notRestore

\* subprocess.run(pg_restore --clean --if-exists ...): its exit code and its
\* output; with exit code 0 every table of the backup is there afterwards,
\* otherwise any of them.  When the program cannot be started the outer
\* except returns "Restore exception".  After a failed DROP the connection of
\* the drop phase is still open and may still hold the locks of its earlier
\* DROPs: pg_restore then waits for a table it is to replace, and
\* subprocess.run, which has no timeout, does not return.
RestoreInvoke ==
    /\ rpc = "restore"
    /\ \E started \in BOOLEAN :
        IF started /\ rconn = "open" /\ rdropped \cap backup.tables # {}
        THEN \E waits \in BOOLEAN :
                /\ rlog' = Append(rlog, <<"pg_restore", 0>>)
                /\ rpc' = IF waits THEN "blocked" ELSE RestoreStepAfter("restore")
                /\ rexit' = 1
                /\ rstderr' = <<"error">>
                /\ UNCHANGED <<schema, rstdout, rresult, rfault>>
        ELSE IF started
        THEN \E exit \in 0..1, out \in StdoutTexts, err \in StderrTexts,
                made \in SUBSET backup.tables :
                /\ exit = 0 => made = backup.tables
                /\ rexit' = exit
                /\ rstdout' = out
                /\ rstderr' = err
                /\ schema' = schema \cup made
                /\ rlog' = Append(rlog, <<"pg_restore", 0>>)
                /\ rpc' = RestoreStepAfter("restore")
                /\ UNCHANGED <<rresult, rfault>>
        ELSE /\ rresult' = RestoreResult(FALSE, "Restore exception", <<>>, <<>>)
             /\ rfault' = rfault \cup {"start"}
             /\ rpc' = "done"
             /\ UNCHANGED <<schema, rlog, rexit, rstdout, rstderr>>
    /\ UNCHANGED <<schema0, backup, rpending, rdropped, rconn>>
    /\ UNCHANGED notRestore

\* The return statements after pg_restore.
RestoreVerdict ==
    /\ rpc = "verdict"
    /\ rresult' = RestoreOutcome(rexit, rstdout, rstderr)
    /\ rpc' = RestoreStepAfter("verdict")
    /\ UNCHANGED <<schema, schema0, backup, rpending, rdropped, rconn, rlog, rexit,
                   rstdout, rstderr, rfault>>
    /\ UNCHANGED notRestore

\* restore_from_backup has returned.
RestoreReturn ==
    /\ rpc = "done"
    /\ rpc' = "idle"
    /\ schema0' = schema
    /\ rpending' = {}
    /\ rdropped' = {}
    /\ rconn' = "none"
    /\ rlog' = <<>>
    /\ rexit' = 0
    /\ rstdout' = <<>>
    /\ rstderr' = <<>>
    /\ rresult' = NoRestoreResult
    /\ rfault' = {}
    /\ UNCHANGED <<schema, backup>>
    /\ UNCHANGED notRestore

\* --------------------------------------------------------- specifications

\* No row operation is running.
CrudIdle ==
    /\ pc = "idle"
    /\ op = NoOp
    /\ Transient

\* No pack_tables call is running.
PackIdle ==
    /\ ppc = "idle"
    /\ existing0 = existing
    /\ rowsOf = [t \in PackNames |-> t - 1]
    /\ request = <<>>
    /\ valid = <<>>
    /\ pidx = 0
    /\ rowCount = 0
    /\ steps = <<>>
    /\ files = {}
    /\ archiveDir = FALSE
    /\ results = <<>>
    /\ allGood = TRUE
    /\ manifest = NoManifest
    /\ presult = NoPackResult
    /\ pfault = {}

\* The database of the row operations: any rows that respect the foreign
\* keys; tables beyond nEdges hold no foreign key and no rows.
InitCrud ==
    /\ nEdges \in 0..MaxEdges
    /\ hasPk \in BOOLEAN
    /\ db \in [0..MaxEdges -> SUBSET Keys]
    /\ \A t \in 1..MaxEdges : db[t] \subseteq db[Target] /\ (t > nEdges => db[t] = {})
    /\ CrudIdle
    /\ existing = PackNames
    /\ PackIdle
    /\ pkDecl = <<"order_id", "line_no">>
    /\ SqlIdle
    /\ NoRestore
    /\ ExportIdle
    /\ NamesIdle
    /\ NoWipe
    /\ StageIdle

\* The schema pack_tables works on: any set of the names exists.
InitPack ==
    /\ nEdges = 0
    /\ hasPk = TRUE
    /\ db = [t \in 0..MaxEdges |-> {}]
    /\ CrudIdle
    /\ existing \in SUBSET PackNames
    /\ PackIdle
    /\ pkDecl = <<"order_id", "line_no">>
    /\ SqlIdle
    /\ NoRestore
    /\ ExportIdle
    /\ NamesIdle
    /\ NoWipe
    /\ StageIdle

\* run_sql and its callers: table "orders" has any primary key.
InitSql ==
    /\ nEdges = 0
    /\ hasPk = TRUE
    /\ db = [t \in 0..MaxEdges |-> {}]
    /\ CrudIdle
    /\ existing = PackNames
    /\ PackIdle
    /\ pkDecl \in KeyDecls
    /\ SqlIdle
    /\ NoRestore
    /\ ExportIdle
    /\ NamesIdle
    /\ NoWipe
    /\ StageIdle

\* restore_from_backup: any tables in the schema, any tables in the backup.
InitRestore ==
    /\ nEdges = 0
    /\ hasPk = TRUE
    /\ db = [t \in 0..MaxEdges |-> {}]
    /\ CrudIdle
    /\ existing = PackNames
    /\ PackIdle
    /\ pkDecl = <<"order_id", "line_no">>
    /\ SqlIdle
    /\ schema \in SUBSET PackNames
    /\ backup \in [exists : {TRUE}, tables : SUBSET PackNames]
    /\ RestoreIdle
    /\ ExportIdle
    /\ NamesIdle
    /\ NoWipe
    /\ StageIdle

\* The bulk exports: any set of the names exists; table 1 holds no row.
InitExport ==
    /\ nEdges = 0
    /\ hasPk = TRUE
    /\ db = [t \in 0..MaxEdges |-> {}]
    /\ CrudIdle
    /\ existing \in SUBSET PackNames
    /\ PackIdle
    /\ pkDecl = <<"order_id", "line_no">>
    /\ SqlIdle
    /\ NoRestore
    /\ ExportIdle
    /\ NamesIdle
    /\ NoWipe
    /\ StageIdle

NextCrud ==
    \/ CallRemove
    \/ CallWrite
    \/ ValidateCondition
    \/ Connect
    \/ Discover
    \/ CascadeStep
    \/ CountStep
    \/ LoopDone
    \/ DeleteTarget
    \/ FilterFields
    \/ LookupPk
    \/ ExecuteWrite
    \/ ApiAddRow
    \/ Return

NextPack ==
    \/ PackCall
    \/ PackFilter
    \/ PackMkdir
    \/ PackBackup
    \/ PackTabular
    \/ PackStructured
    \/ PackDrop
    \/ PackManifest
    \/ PackReturn

NextSql ==
    \/ SqlCall
    \/ ApiParse
    \/ SqlConnect
    \/ SqlPrepare
    \/ SqlExecute
    \/ SqlReply
    \/ SqlReturn

NextRestore ==
    \/ RestoreCall
    \/ RestoreCheck
    \/ RestoreConnect
    \/ RestoreDrop
    \/ RestoreInvoke
    \/ RestoreVerdict
    \/ RestoreReturn

\* The files of two requests, from the first reading of the clock on.
InitNames ==
    /\ nEdges = 0
    /\ hasPk = TRUE
    /\ db = [t \in 0..MaxEdges |-> {}]
    /\ CrudIdle
    /\ existing = PackNames
    /\ PackIdle
    /\ pkDecl = <<"order_id", "line_no">>
    /\ SqlIdle
    /\ NoRestore
    /\ ExportIdle
    /\ NamesIdle
    /\ NoWipe
    /\ StageIdle

\* wipe_database: any set of the names is a table of the schema.
InitWipe ==
    /\ nEdges = 0
    /\ hasPk = TRUE
    /\ db = [t \in 0..MaxEdges |-> {}]
    /\ CrudIdle
    /\ existing = PackNames
    /\ PackIdle
    /\ pkDecl = <<"order_id", "line_no">>
    /\ SqlIdle
    /\ NoRestore
    /\ ExportIdle
    /\ NamesIdle
    /\ wschema \in SUBSET PackNames
    /\ WipeIdle
    /\ StageIdle

\* save_query_to_xlsx: no call is running and no staging table exists.
InitStage ==
    /\ nEdges = 0
    /\ hasPk = TRUE
    /\ db = [t \in 0..MaxEdges |-> {}]
    /\ CrudIdle
    /\ existing = PackNames
    /\ PackIdle
    /\ pkDecl = <<"order_id", "line_no">>
    /\ SqlIdle
    /\ NoRestore
    /\ ExportIdle
    /\ NamesIdle
    /\ NoWipe
    /\ StageIdle

NextExport ==
    \/ ExportCall
    \/ ExportFilter
    \/ ExportMkdir
    \/ ExportWrite
    \/ ExportReturn

NextNames ==
    \/ Tick
    \/ \E r \in Requests : FileCall(r)
    \/ \E r \in Requests : FileMkdir(r)
    \/ \E r \in Requests : FileWrite(r)
    \/ \E r \in Requests : FileDone(r)

NextWipe ==
    \/ WipeCall
    \/ WipeConnect
    \/ WipeList
    \/ WipeDrop
    \/ WipeCommit
    \/ WipeReply
    \/ WipeReturn

NextStage ==
    \/ StageCall
    \/ StageConnect
    \/ StageCreate
    \/ StageInsert
    \/ StageCommit
    \/ StageMkdir
    \/ StageSelect
    \/ StageWrite
    \/ StageDrop
    \/ StageFinish
    \/ StageReturn

SpecCrud == InitCrud /\ [][NextCrud]_vars
SpecPack == InitPack /\ [][NextPack]_vars
SpecSql == InitSql /\ [][NextSql]_vars
SpecRestore == InitRestore /\ [][NextRestore]_vars
SpecExport == InitExport /\ [][NextExport]_vars
SpecNames == InitNames /\ [][NextNames]_vars
SpecWipe == InitWipe /\ [][NextWipe]_vars
SpecStage == InitStage /\ [][NextStage]_vars

\* ------------------------------------------------- properties: row operations

\* The target rows the call's condition selects among the rows committed when
\* the call started.
Selected == CondEval(op.condition.text, db0[Target])

\* Rows of referencing table t that point at a selected target row.
Dependents(t) == db0[t] \cap Selected.rows

\* The inbound edges with dependent rows, in catalog order, as safe_remove is
\* to report them.
BlockingRelations ==
    LET blocked == SelectSeq([i \in 1..nEdges |-> i], LAMBDA t : Dependents(t) # {})
    IN  [i \in DOMAIN blocked |->
            [table |-> blocked[i], column |-> RefCol,
             count |-> Cardinality(Dependents(blocked[i]))]]

\* A safe_remove call that returned, on a target with a declared primary key
\* and inbound edges, with a condition the server accepts, and with no fault
\* injected by the environment.
SafeRemoveReturned ==
    /\ pc = "done"
    /\ op.name = "safe_remove"
    /\ fault = {}
    /\ hasPk
    /\ nEdges >= 1
    /\ Selected.ok

\* The statements this call sent on the connection it opened itself.
OwnStatements ==
    LET own == SelectSeq(log, LAMBDA e : e.conn = 1 /\ e.stmt.kind # "CATALOG")
    IN  [i \in DOMAIN own |-> own[i].stmt]

\* C1: safe_remove on a table with inbound edges of which at least one has
\* dependent rows for the condition deletes nothing and returns ok = False,
\* has_relations = True and one {table, column, count} entry for every edge
\* with a nonzero count.
C1_SafeRemoveListsEveryBlockingEdge ==
    (SafeRemoveReturned /\ BlockingRelations # <<>>)
        => /\ db = db0
           /\ ~result.ok
           /\ result.has_relations
           /\ result.relations = BlockingRelations

\* C2: safe_remove on a table with inbound edges none of which has dependent
\* rows for the condition deletes the selected target rows, commits, and
\* returns ok = True with changed = the number of rows removed.
C2_SafeRemoveDeletesWhenNothingBlocks ==
    (SafeRemoveReturned /\ BlockingRelations = <<>> /\ Selected.rows # {})
        => /\ result.ok
           /\ result.changed = Cardinality(Selected.rows)
           /\ db = [db0 EXCEPT ![Target] = @ \ Selected.rows]
           /\ commits = 1

\* C3: when a statement of a cascade remove_row fails (a DELETE on a
\* referencing table or the DELETE on the target), nothing is committed: the
\* committed rows are those of the start of the call, dependent rows deleted
\* earlier in the transaction included, and the result is ok = False with the
\* driver's error text.
C3_CascadeFailureCommitsNothing ==
    (pc = "done" /\ op.name = "remove_row" /\ op.cascade /\ "statement" \in fault)
        => /\ db = db0
           /\ commits = 0
           /\ ~result.ok
           /\ result.msg = DriverError

\* C3 witness: a cascade call whose transaction had already deleted dependent
\* rows when a later statement failed.
C3_Witness ==
    /\ pc = "done"
    /\ op.name = "remove_row"
    /\ op.cascade
    /\ "statement" \in fault
    /\ \E t \in 1..MaxEdges : tx[t] # db0[t]
    /\ db = db0

\* The DELETE a cascade is to send for referencing table t.
IsEdgeDelete(stmt, t) ==
    /\ stmt.kind = "DELETE"
    /\ stmt.table = t
    /\ stmt.col = RefCol
    /\ stmt.sub \in {PkCol, RefCol}
    /\ stmt.cond = op.condition.text

IsTargetDelete(stmt) ==
    /\ stmt.kind = "DELETE"
    /\ stmt.table = Target
    /\ stmt.cond = op.condition.text

\* C4: a cascade remove_row sends one DELETE per inbound edge, in discovery
\* order, each restricted by the IN-subquery over the target rows matching the
\* condition, all before the DELETE on the target table, all on the one
\* connection of the call, and commits once, after the target delete.
C4_CascadeOrder ==
    (op.name = "remove_row" /\ op.cascade)
        => /\ commits <= 1
           /\ commits = 1 => (pc = "done" /\ result.ok)
           /\ \A i \in DOMAIN log :
                log[i].stmt.kind # "CATALOG" => log[i].conn = 1
           /\ \A i \in DOMAIN OwnStatements :
                i <= nEdges => IsEdgeDelete(OwnStatements[i], i)
           /\ (pc = "done" /\ result.ok)
                => /\ commits = 1
                   /\ Len(OwnStatements) = nEdges + 1
                   /\ IsTargetDelete(OwnStatements[nEdges + 1])
                   /\ db[Target] = db0[Target] \ Selected.rows
                   /\ \A t \in 1..nEdges :
                        OwnStatements[t].sub = PkCol => db[t] = db0[t] \ Selected.rows

\* C4 witness: a committed cascade over two edges that removed dependent rows
\* of both and a target row.
C4_Witness ==
    /\ pc = "done"
    /\ op.name = "remove_row"
    /\ op.cascade
    /\ result.ok
    /\ nEdges >= 2
    /\ \A t \in 1..2 : db[t] # db0[t]
    /\ result.changed >= 1

\* A condition that is missing, empty or made of white space only.
Blank(c) == c.null \/ \A i \in DOMAIN c.text : c.text[i] \in {" ", "\t"}

\* C5: remove_row (with or without cascade), safe_remove and modify_row with a
\* missing, empty or white-space-only condition return ok = False without
\* opening a connection and without sending any statement or catalog query.
C5_BlankConditionTouchesNothing ==
    (op.name \in {"remove_row", "safe_remove", "modify_row"}
       /\ Blank(op.condition) /\ pc # "validate")
        => /\ pc = "done"
           /\ ~result.ok
           /\ result.msg = "Condition cannot be empty"
           /\ opened = 0
           /\ log = <<>>
           /\ conn.state = "none"
           /\ db = db0

\* C5 witness: modify_row returned for a condition of white space only.
C5_Witness ==
    /\ pc = "done"
    /\ op.name = "modify_row"
    /\ op.condition = Str(<<" ", "\t">>)
    /\ op.data # <<>>
    /\ ~result.ok

\* The INSERT statements of this call.
Inserts == SelectSeq(log, LAMBDA e : e.stmt.kind = "INSERT")

\* Whether the catalog declares column `key' nullable.
DeclaredNullable(key) ==
    \E i \in DOMAIN ColumnsInfo :
        ColumnsInfo[i].column_name = key /\ ColumnsInfo[i].is_nullable = "YES"

\* Column `key' is in the statement, bound to `value'.
Binds(stmt, key, value) ==
    \E i \in DOMAIN stmt.cols : stmt.cols[i] = key /\ stmt.params[i] = value

\* C10: the INSERT of add_row never names a non-nullable column whose value
\* is empty or None, always names a nullable column whose value is empty or
\* None, bound to NULL, and always names a column with a non-empty value,
\* bound to that value; and the INSERT is sent whenever a field is to be
\* included and the catalog and the connection answer.
C10_AddRowNullPolicy ==
    op.name = "add_row"
        => /\ \A e \in Range(Inserts) : \A f \in Range(op.data) :
                IF HasValue(f.value) THEN Binds(e.stmt, f.key, f.value)
                ELSE IF DeclaredNullable(f.key) THEN Binds(e.stmt, f.key, NoneVal)
                ELSE f.key \notin Range(e.stmt.cols)
           /\ (pc = "done" /\ fault \cap {"catalog", "connect"} = {}
                 /\ \E f \in Range(op.data) : HasValue(f.value) \/ DeclaredNullable(f.key))
                => Len(Inserts) = 1

\* C10 witness: an add_row that sent its INSERT for data holding an empty
\* value for the non-nullable "name" and an empty value for the nullable
\* "note".
C10_Witness ==
    /\ pc = "done"
    /\ op.name = "add_row"
    /\ op.data = <<[key |-> "name", value |-> Str(<<>>)],
                   [key |-> "note", value |-> Str(<<>>)]>>
    /\ Len(Inserts) = 1
    /\ Inserts[1].stmt.cols = <<"note">>
    /\ Inserts[1].stmt.params = <<NoneVal>>

\* -------------------------------------------------- properties: pack_tables

\* The steps performed for table t, in order.
StepsOf(t) ==
    LET mine == SelectSeq(steps, LAMBDA s : s[1] = t)
    IN  [i \in DOMAIN mine |-> mine[i][2]]

PackOrder == <<"backup", "tabular", "structured", "drop">>

\* Tables this call dropped.
Dropped == {t \in PackNames : <<t, "drop">> \in Range(steps)}

\* The requested tables that existed when the call started, in request order.
RequestedExisting == SelectSeq(request, LAMBDA t : t \in existing0)

\* C6: the steps of every table are a prefix of backup, tabular snapshot,
\* structured snapshot, drop, so a table is dropped only after its backup and
\* both snapshot steps went through; a table whose backup failed has no
\* snapshot file, is not dropped, and is recorded as failed.
C6_PackStepOrder ==
    \A t \in PackNames :
        /\ StepsOf(t) = SubSeq(PackOrder, 1, Len(StepsOf(t)))
        /\ (t \in existing0 /\ t \notin existing) => t \in Dropped
        /\ <<t, "xlsx">> \in files => <<t, "backup">> \in files
        /\ <<t, "json">> \in files => <<t, "backup">> \in files
        /\ \A i \in DOMAIN results :
             (results[i].table = t /\ results[i].text = "Backup error")
                => /\ ~results[i].dict
                   /\ ~allGood
                   /\ StepsOf(t) = <<>>
                   /\ files \cap {<<t, "xlsx">>, <<t, "json">>} = {}
                   /\ (t \in existing0 => t \in existing)

\* C6 witness: a call that dropped one table after its four steps and
\* skipped another whose backup failed.
C6_Witness ==
    /\ ppc = "done"
    /\ \E t \in PackNames : StepsOf(t) = PackOrder /\ <<t, "xlsx">> \in files
    /\ \E i \in DOMAIN results : results[i].text = "Backup error"

\* One outcome entry per processed table, in processing order, an ok record
\* for a dropped table and an error message for any other.
OutcomesMatch(res) ==
    /\ Len(res) = Len(valid)
    /\ \A i \in DOMAIN res :
        /\ res[i].table = valid[i]
        /\ IF valid[i] \in Dropped
           THEN res[i].dict /\ res[i].status = "ok"
           ELSE ~res[i].dict /\ res[i].text # ""

\* C7 as claimed: for any list of requested tables the result and the
\* manifest carry total = the requested tables that exist, packed = the
\* tables whose backup and drop succeeded, and one outcome per table.
C7_ResultAndManifestCarryCounts ==
    (ppc = "done" /\ RequestedExisting # <<>>
       /\ pfault \cap {"catalog", "mkdir", "manifest"} = {})
        => /\ manifest.written
           /\ manifest.total = Len(RequestedExisting)
           /\ manifest.packed = Cardinality(Dropped)
           /\ OutcomesMatch(manifest.results)
           /\ presult.counts
           /\ presult.total = Len(RequestedExisting)
           /\ presult.packed = Cardinality(Dropped)
           /\ OutcomesMatch(presult.details)

\* C7 amended: once the manifest is written it carries total = the tables
\* that passed the table_present filter (the requested tables that exist,
\* when every lookup answered), packed = the tables whose backup and drop
\* succeeded, and one outcome per table in processing order; the result
\* carries the same counts and outcomes when at least one table was packed,
\* and is the bare failure message when none was.
C7_ManifestCarriesCounts ==
    (ppc = "done" /\ manifest.written)
        => /\ manifest.total = Len(valid)
           /\ ("catalog" \notin pfault => valid = RequestedExisting)
           /\ manifest.packed = Cardinality(Dropped)
           /\ OutcomesMatch(manifest.results)
           /\ IF Dropped # {}
              THEN /\ presult.ok
                   /\ presult.counts
                   /\ presult.total = manifest.total
                   /\ presult.packed = manifest.packed
                   /\ presult.details = manifest.results
              ELSE /\ ~presult.ok
                   /\ ~presult.counts
                   /\ presult.msg = "Failed to pack any tables"

\* C7 witness: three tables of which only the second one's backup failed:
\* ok = True, packed = 2, total = 3, two ok outcomes and one error.
C7_Witness ==
    /\ ppc = "done"
    /\ manifest.written
    /\ Len(valid) = 3
    /\ pfault = {"backup"}
    /\ manifest.results[1].status = "ok"
    /\ manifest.results[2].text = "Backup error"
    /\ manifest.results[3].status = "ok"
    /\ presult.ok
    /\ presult.packed = 2
    /\ presult.total = 3

\* The three overall results, decided by the tables that succeeded.
OverallByTables ==
    /\ (presult.ok /\ presult.msg = "Pack complete") <=> Dropped = Range(valid)
    /\ (presult.ok /\ presult.msg = "Partially packed")
            <=> (Dropped # {} /\ Dropped # Range(valid))
    /\ ~presult.ok <=> Dropped = {}

\* C8 as claimed: over a non-empty set of existing tables the result is
\* "fully packed" exactly when every table succeeded, "partially packed"
\* exactly when some but not all did, and a failure exactly when none did.
C8_OverallResult ==
    (ppc = "done" /\ valid # <<>>) => OverallByTables

\* C8 amended: the same, for the calls that wrote their manifest; a call whose
\* archive directory or manifest cannot be written returns the failure "Pack
\* exception" whatever its tables' outcomes.
C8_OverallResultOnceManifestWritten ==
    (ppc = "done" /\ valid # <<>>)
        => IF manifest.written THEN OverallByTables
           ELSE presult = PackFailure("Pack exception")

\* C8 witness: a partially packed call, one table dropped and one not.
C8_Witness ==
    /\ ppc = "done"
    /\ manifest.written
    /\ presult.ok
    /\ presult.msg = "Partially packed"
    /\ Dropped # {}
    /\ Dropped # Range(valid)

\* The manifest holds every outcome, the counts and a time.
ManifestComplete ==
    /\ manifest.written
    /\ manifest.results = results
    /\ Len(manifest.results) = Len(valid)
    /\ manifest.packed = Cardinality(Dropped)
    /\ manifest.total = Len(valid)
    /\ manifest.time # ""

\* C9 as claimed: every invocation of pack_tables has written a complete
\* manifest when it returns.
C9_ManifestAlwaysWritten ==
    ppc = "done" => ManifestComplete

\* C9 amended: an invocation that returns a pack result, be it "Pack
\* complete", "Partially packed" or "Failed to pack any tables", has written
\* a complete manifest; one that returns "No tables selected" or "No valid
\* tables found" has created neither archive directory nor manifest; one that
\* returns "Pack exception" has written no manifest.
C9_ManifestWrittenWithEveryPackResult ==
    ppc = "done"
        => /\ presult.msg \in {"Pack complete", "Partially packed",
                               "Failed to pack any tables"} => ManifestComplete
           /\ presult.msg \in {"No tables selected", "No valid tables found"}
                => (~manifest.written /\ ~archiveDir /\ files = {})
           /\ presult.msg = "Pack exception" => ~manifest.written
           /\ (valid # <<>> /\ pfault \cap {"mkdir", "manifest"} = {})
                => ManifestComplete

\* C9 witness: a call over two tables or more in which no table was packed,
\* and which wrote its manifest all the same.
C9_Witness ==
    /\ ppc = "done"
    /\ Dropped = {}
    /\ Len(results) >= 2
    /\ ManifestComplete
    /\ ~presult.ok

\* ------------------------------------- properties: modify_row and connections

\* The UPDATE statements of this call.
Updates == SelectSeq(log, LAMBDA e : e.stmt.kind = "UPDATE")

\* C11: the UPDATE of modify_row never names a non-nullable column whose value
\* is empty or None, and always names a nullable column whose value is empty
\* or None, bound to NULL (the catalog having answered), as add_row does.
C11_ModifyRowNullPolicy ==
    (op.name = "modify_row" /\ "catalog" \notin fault)
        => \A e \in Range(Updates) : \A f \in Range(op.data) :
                IF HasValue(f.value) THEN Binds(e.stmt, f.key, f.value)
                ELSE IF DeclaredNullable(f.key) THEN Binds(e.stmt, f.key, NoneVal)
                ELSE f.key \notin Range(e.stmt.cols)

\* C19: when a row operation returns, the connection it opened (if it got
\* one) has been closed, on success and on every failure path.
C19_ConnectionClosedOnReturn ==
    (pc = "done" /\ op.name \in {"add_row", "modify_row", "remove_row", "safe_remove"})
        => conn.state \in {"none", "closed"}

\* C20: modify_row with a non-empty condition and data of which the null
\* policy keeps nothing returns "No data to update" without having opened a
\* connection or sent a catalog query or an UPDATE.
C20_NoDataTouchesNothing ==
    (pc = "done" /\ op.name = "modify_row" /\ ~Blank(op.condition) /\ fault = {}
       /\ FilterData(op.data, NullableColumns(ColumnsInfo)) = <<>>)
        => /\ ~result.ok
           /\ result.msg = "No data to update"
           /\ opened = 0
           /\ log = <<>>

\* C13: every failure of the add-row operation (no connection, failing
\* INSERT, unknown table, nothing to insert) is answered with ok = False.
C13_AddRowFailureReported ==
    (op.name = "add_row" /\ response # NoResponse /\ db = db0)
        => ~response.ok

\* ------------------------------------------ properties: statement text

\* The INSERT and UPDATE statements of this call.
Writes == SelectSeq(log, LAMBDA e : e.stmt.kind \in {"INSERT", "UPDATE"})

\* The non-empty values a caller may send.
FilledValues == {Str(<<"x">>), Str(<<"y">>)}

\* The data that differ from d only in the non-empty values supplied.
SameButValues(d) ==
    {e \in [DOMAIN d -> [key : DataKeys, value : DataValues \cup FilledValues]] :
        \A i \in DOMAIN d :
            /\ e[i].key = d[i].key
            /\ IF HasValue(d[i].value) THEN HasValue(e[i].value)
               ELSE e[i].value = d[i].value}

\* The statement the running call builds for data d.
StatementFor(d) ==
    IF op.name = "add_row"
    THEN InsertStmt(FilterData(d, NullableColumns(ColumnsInfo)), pkFound)
    ELSE UpdateStmt(FilterData(d, IF "catalog" \in fault THEN {}
                                  ELSE ModifyNullableColumns(ColumnsInfo)),
                    op.condition.text)

\* The value data d carries for column `key'.
ValueOf(d, key) == (CHOOSE f \in Range(d) : f.key = key).value

\* The bound parameters of the statement are the values of d for the columns
\* of the statement, in their order, None standing for an empty value.
BindsInOrder(stmt, d) ==
    /\ Len(stmt.params) = Len(stmt.cols)
    /\ \A i \in DOMAIN stmt.cols :
        stmt.params[i] = IF HasValue(ValueOf(d, stmt.cols[i]))
                         THEN ValueOf(d, stmt.cols[i]) ELSE NoneVal

\* C17: the text of the statement of add_row and modify_row spells out no
\* value and is the same for any other non-empty values supplied; the values
\* are the bound parameters, in the order of the columns of the statement.
C17_ValuesOnlyAsParameters ==
    op.name \in {"add_row", "modify_row"}
        => \A e \in Range(Writes) :
            /\ e.stmt.literals = <<>>
            /\ BindsInOrder(e.stmt, op.data)
            /\ \A d \in SameButValues(op.data) :
                 /\ StmtText(StatementFor(d)) = StmtText(e.stmt)
                 /\ BindsInOrder(StatementFor(d), d)

\* C17 witness: an add_row that sent its INSERT with two columns and two
\* non-empty values.
C17_Witness ==
    /\ pc = "done"
    /\ Len(Writes) = 1
    /\ Writes[1].stmt.kind = "INSERT"
    /\ Len(Writes[1].stmt.cols) = 2
    /\ \A i \in 1..2 : HasValue(Writes[1].stmt.params[i])

\* ------------------------------------------- properties: run_sql

\* The positional sequence of an argument list: its tuple, and None for no
\* argument.
Canonical(L) == IF L = <<>> THEN PyNone ELSE PyTuple(L)

\* C12: for every argument list, _prepare_params returns the same sequence
\* whether the list comes as a list, as a dict from "0", "1", ... to its
\* elements, or as the JSON text of either: the tuple of the elements in
\* index order (None for the empty list).
C12_SameSequenceForEveryShape ==
    (scall.caller \in {"direct", "api"} /\ scall.shape # "invalid"
       /\ spc \in {"execute", "reply", "done"} /\ "connect" \notin sfault)
        => /\ sqlParams = Canonical(scall.logical)
           /\ \A sh \in Shapes :
                PrepareParams(Encode(scall.logical, sh)) = sqlParams

\* C12 witness: a list of more than ten elements that came as the JSON text
\* of a dict filled from its last index to its first.
C12_Witness ==
    /\ spc = "done"
    /\ Len(scall.logical) > 10
    /\ scall.shape = "jsonDictReversed"
    /\ sargs.type = "str"
    /\ sqlParams = PyTuple(scall.logical)

\* C14: when the statement of a /api/run_sql call fails, its transaction is
\* rolled back, its connection is closed, and the answer is ok = False with
\* the driver's message.
C14_FailedStatementReported ==
    (scall.caller = "api" /\ spc = "done" /\ "statement" \in sfault)
        => /\ sconn.txn = "rolled back"
           /\ sconn.state = "closed"
           /\ ~sreply.ok
           /\ sreply.error = DriverError

\* C18: get_table_pk returns the first column, by ordinal position, of the
\* primary key of the table, whether it has one column or several, and no
\* column for a table without a primary key.
C18_FirstPrimaryKeyColumn ==
    (scall.caller = "get_table_pk" /\ spc = "done" /\ sfault = {})
        => sreply.column = IF pkDecl = <<>> THEN NoCol ELSE pkDecl[1]

\* C18 witness: get_table_pk answered "order_id" for the key (order_id,
\* line_no).
C18_Witness ==
    /\ spc = "done"
    /\ scall.caller = "get_table_pk"
    /\ pkDecl = <<"order_id", "line_no">>
    /\ sreply.column = "order_id"

\* The orders of the entries of a mapping in which the integer values of the
\* keys ascend.
AscendingOrders(m) ==
    {o \in [DOMAIN m.keys -> DOMAIN m.keys] :
        /\ \A i, j \in DOMAIN o : i # j => o[i] # o[j]
        /\ \A i, j \in DOMAIN o :
                i < j => KeyInt(m.keys[o[i]]) <= KeyInt(m.keys[o[j]])}

\* C22: for a mapping whose keys are all numerals, among them numerals of two
\* digits and numerals with a leading zero, _prepare_params returns the
\* values in ascending order of the integer value of their keys; a mapping
\* with a key that is not a numeral is returned unchanged.
C22_MappingByIntegerKey ==
    (scall.caller = "mapping" /\ sargs.keys # <<>>
       /\ spc \in {"execute", "reply", "done"} /\ "connect" \notin sfault)
        => IF \A i \in DOMAIN sargs.keys : IsDigit(sargs.keys[i])
           THEN \E o \in AscendingOrders(sargs) :
                    sqlParams = PyTuple([i \in DOMAIN o |-> sargs.vals[o[i]]])
           ELSE sqlParams = sargs

\* C21: for a table with a composite primary key the INSERT of add_row has no
\* RETURNING clause and the subquery of remove_row and safe_remove selects the
\* edge column, as for a table without a primary key.
C21_CompositeKeyAsNoKey ==
    (scall.caller = "get_table_pk" /\ spc = "done" /\ sfault = {} /\ Len(pkDecl) > 1)
        => /\ sreply.returning = NoCol
           /\ sreply.subquery = RefCol

\* C27: restore_from_backup on a path without a file returns "File not
\* found" before it opens a connection, sends a DROP or runs pg_restore: the
\* schema is as it was.
C27_MissingFileTouchesNothing ==
    (rpc \notin {"idle", "check"} /\ ~backup.exists)
        => /\ rpc = "done"
           /\ ~rresult.ok
           /\ rresult.msg = "File not found"
           /\ rlog = <<>>
           /\ rconn = "none"
           /\ rdropped = {}
           /\ schema = schema0

\* C27 witness: the call returned "File not found" with tables in the schema.
C27_Witness ==
    /\ rpc = "done"
    /\ ~backup.exists
    /\ schema # {}
    /\ rresult.msg = "File not found"

\* The discovery of the inbound edges failed: the call got as far as
\* get_related_tables, and its catalog query is not among the statements sent.
DiscoveryFailed ==
    /\ op.name \in {"remove_row", "safe_remove"}
    /\ pc \in {"loop", "delete", "done"}
    /\ "catalog" \in fault
    /\ \A i \in DOMAIN log : log[i].stmt # Catalog("related")

\* C29: when the discovery of the inbound edges fails, cascade remove_row and
\* safe_remove return ok = False, send no statement, commit nothing and leave
\* every table as it was; the failure is not taken for "no inbound edge".
C29_FailedDiscoveryDeletesNothing ==
    DiscoveryFailed
        => /\ pc = "done"
           /\ ~result.ok
           /\ result.msg = NotIterable
           /\ log = <<>>
           /\ commits = 0
           /\ db = db0

\* C29 witness: the discovery failed for a call whose condition selects a
\* row of the target table that no referencing row points at.
C29_Witness ==
    /\ DiscoveryFailed
    /\ pc = "done"
    /\ Selected.ok /\ Selected.rows # {}
    /\ \A t \in 1..nEdges : Dependents(t) = {}
    /\ db = db0

\* ------------------------------------------- properties: pack_tables, II

\* The steps a table went through when its turn ended with the message.
StepsBefore(text) ==
    CASE text = "Backup error" -> {<<>>}
      [] text = "Error packing table" -> {<<"backup">>, <<"backup", "tabular">>}
      [] text = "Error dropping table" -> {<<"backup", "tabular", "structured">>}
      [] OTHER -> {}

\* C23: the tables are processed one after the other and each on its own:
\* whatever failed for one table, every table of the list has had its turn
\* when the loop is left, a table without a failure of its own went through
\* all four steps, a failed one stopped at its own failing step, and every
\* table packed earlier in the call is still dropped.
C23_TablesProcessedIndependently ==
    /\ (ppc \in {"backup", "tabular", "structured", "drop"} /\ pidx <= Len(valid))
          => Len(results) = pidx - 1
    /\ (ppc \in {"manifest", "done"} /\ archiveDir) => Len(results) = Len(valid)
    /\ \A i \in DOMAIN results :
          /\ results[i].table = valid[i]
          /\ IF results[i].dict
             THEN StepsOf(valid[i]) = PackOrder /\ valid[i] \notin existing
             ELSE StepsOf(valid[i]) \in StepsBefore(results[i].text)

\* C23 witness: a call over three tables in which the second table failed
\* after the first was packed, and the third was packed all the same.
C23_Witness ==
    /\ ppc = "done"
    /\ Len(results) = 3
    /\ results[1].dict /\ ~results[2].dict /\ results[3].dict
    /\ {valid[1], valid[3]} \cap existing = {}
    /\ StepsOf(valid[3]) = PackOrder

\* C30: every file an ok record names is in the archive directory once the
\* table is dropped, and the record's row count is the number of rows the
\* table held, also for a table without rows and for a table whose rows
\* could not be read.
C30_OkRecordIsBackedByFiles ==
    \A i \in DOMAIN results :
        (results[i].dict /\ results[i].status = "ok")
            => /\ {results[i].backup_file, results[i].excel_file,
                    results[i].json_file} \subseteq files
               /\ results[i].rows = rowsOf[results[i].table]

\* ------------------------------------------- properties: bulk exports

\* The names of the call that are tables of the schema, in call order.
ExportExisting == SelectSeq(xcall.names, LAMBDA t : t \in existing)

\* C26: a bulk export keeps the names table_present knows and skips the
\* others without failing; it returns a failure only for an empty list or a
\* list without an existing table, and a file whenever a name of the list
\* exists.
C26_BulkExportSkipsUnknownNames ==
    (xpc = "done" /\ xfault = {})
        => /\ (xcall.names # <<>> /\ ExportExisting # <<>>) => xvalid = ExportExisting
           /\ ~xresult.file <=> (xcall.names = <<>> \/ ExportExisting = <<>>)
           /\ xresult.file => xfile

\* ------------------------------------------- properties: wipe_database

\* The commits of the call.
WipeCommits == SelectSeq(wlog, LAMBDA e : e[1] = "commit")

\* C28: wipe_database drops all tables or none.  The DROPs run in one
\* transaction with a single commit after the last of them; a call that
\* returns success has dropped every table of the schema and reports their
\* number; a call in which a DROP failed has rolled back, dropped nothing,
\* and returns a failure naming the table of that DROP.
C28_WipeAllOrNothing ==
    /\ wschema \in {wschema0, {}}
    /\ Len(WipeCommits) <= 1
    /\ (WipeCommits # <<>>) => wlog[Len(wlog)][1] = "commit"
    /\ (wpc \in {"done", "replied"} /\ wresult.ok)
          => /\ wschema = {}
             /\ wschema0 # {} => (wresult.count = Cardinality(wschema0)
                                  /\ Len(WipeCommits) = 1)
    /\ (wpc \in {"done", "replied"} /\ "drop" \in wfault)
          => /\ ~wresult.ok
             /\ wresult.msg = "Failed to drop"
             /\ wlog[Len(wlog) - 1] = <<"drop", wresult.table>>
             /\ wconn = [state |-> "closed", txn |-> "rolled back"]
             /\ wschema = wschema0

\* C28 witness: the DROP of the last of three tables failed after the other
\* two went through, and the three tables are still there.
C28_Witness ==
    /\ wpc = "done"
    /\ "drop" \in wfault
    /\ Len(wlog) = 4
    /\ Cardinality(wschema) = 3
    /\ wresult.table = wtables[3]

\* ------------------------------------------- properties: file names

\* C25: two requests in flight never hold the same file path, also when
\* both operations ran within the same second.
C25_NoSharedFilePath ==
    \A q, r \in Requests :
        (q # r /\ fop[q].pc = "written" /\ fop[r].pc = "written")
            => fop[q].path # fop[r].path

\* ------------------------------------- properties: save_query_to_xlsx

\* The steps of the inner try block that can raise.
StageSteps ==
    {"create", "insert", "commit", "mkdir", "select", "write", "drop", "commit 2"}

\* C24: once save_query_to_xlsx has returned, with a file or with an error
\* raised at any step (create, insert, commit, directory, select, file write,
\* drop, second commit), the staging table does not exist, neither committed
\* nor in an open transaction; the transaction of the call is committed,
\* rolled back or discarded with its session, never open; and the connection
\* is closed whenever one was opened.  A step that raised is answered with
\* (None, message) after a rollback attempt and the close.
C24_StagingLeavesNothingBehind ==
    qpc = "done" =>
        /\ qtable = NoTable
        /\ qseen = NoTable
        /\ qconn.state \in {"closed", "none"}
        /\ qconn.txn \in {"none", "committed", "rolled back", "discarded"}
        /\ (qconn.state = "none") <=> (qcall.rows = 0 \/ "connect" \in qfault)
        /\ (qconn.state = "closed") => qlog[Len(qlog)] = <<"close", "ok">>
        /\ (qfault \cap StageSteps # {})
              => /\ ~qresult.file
                 /\ qlog[Len(qlog) - 1][1] = "rollback"
                 /\ qconn.txn \in {"rolled back", "discarded"}
        /\ qresult.file <=> (qfault = {} /\ qcall.rows > 0)
        /\ qresult.file => (qfile /\ qconn.txn = "committed")

\* The file write raised after MaxShort rows had been staged and committed.
C24_Witness ==
    /\ qpc = "done"
    /\ "write" \in qfault
    /\ qcall.rows = MaxShort
    /\ \E i \in DOMAIN qlog : qlog[i] = <<"commit", "ok">>
    /\ qconn = [state |-> "closed", txn |-> "rolled back"]
    /\ ~qresult.file

\* ------------------------------------- properties: restore_from_backup

\* pg_restore was run by this call.
Invoked == \E i \in DOMAIN rlog : rlog[i][1] = "pg_restore"

\* The tables this call sent a DROP for.
DropsSent == {rlog[i][2] : i \in {j \in DOMAIN rlog : rlog[j][1] = "drop"}}

\* C15: on an existing backup file restore_from_backup sends its DROPs and
\* their commit before it runs pg_restore, and when the drop phase went
\* through every table of the schema was dropped by then; pg_restore is run
\* also when the drop phase failed; and when pg_restore exits with code 0
\* the restore reports success.
C15_DropThenRestore ==
    /\ \A i, j \in DOMAIN rlog :
            (rlog[i][1] = "pg_restore" /\ rlog[j][1] \in {"drop", "commit"}) => j < i
    /\ (Invoked /\ rfault \cap {"connect", "drop"} = {})
            => /\ DropsSent = schema0
               /\ \E i \in DOMAIN rlog : rlog[i][1] = "commit"
    /\ (backup.exists /\ rpc \in {"verdict", "blocked", "done"} /\ "start" \notin rfault)
            => Invoked
    /\ (rpc = "done" /\ Invoked /\ rexit = 0) => rresult.ok

\* C15 witness: a restore whose drop phase failed on a table of the schema,
\* and which ran pg_restore all the same and reported success on exit code 0.
C15_Witness ==
    /\ rpc = "done"
    /\ schema0 # {}
    /\ "drop" \in rfault
    /\ Invoked
    /\ rexit = 0
    /\ rresult.ok

\* C16: after pg_restore has run, the restore reports success with a warning
\* when the output holds the benign warning, success when it does not and
\* the exit code is 0, and otherwise a failure carrying stderr and stdout.
C16_RestoreVerdict ==
    (rpc = "done" /\ Invoked)
        => IF Contains(rstdout \o rstderr, BenignWarning)
           THEN rresult.ok /\ rresult.msg = "Restored (some warnings ignored)"
           ELSE IF rexit = 0
           THEN rresult.ok /\ rresult.msg = "Restore successful"
           ELSE /\ ~rresult.ok
                /\ rresult.msg = "pg_restore error"
                /\ rresult.stderr = rstderr
                /\ rresult.stdout = rstdout

\* C16 witness: pg_restore exited with a nonzero code and the benign warning
\* among its errors, and the restore reported success with a warning.
C16_Witness ==
    /\ rpc = "done"
    /\ Invoked
    /\ rexit = 1
    /\ rstderr = <<"error", BenignWarning>>
    /\ rresult.ok
    /\ rresult.msg = "Restored (some warnings ignored)"

====
